---- MODULE Spec2Model ----
(***************************************************************************)
(* Model of the lenient FEN validation, parsing and comparison core of     *)
(* pgn2fen (pgn2fen/utils.py, pgn2fen/evaluate.py, pgn2fen/models.py).     *)
(*                                                                         *)
(* Python strings are TLA+ strings; a character is a string of length 1.   *)
(* An optional value (str | None) is a sequence of length 0 or 1.          *)
(* A call that raises returns [tag |-> <exception class>].                 *)
(***************************************************************************)
EXTENDS Integers, Sequences, FiniteSets, TLC

VARIABLES fn, args, ret, pc, futures, yielded, current, jsonl, loaded,
          tries, requests, waits,
          halfmoves, generated, input_idx, game, truncated_dir

(* the state of a run of run_experiment: the main thread's position, the
   futures of the executor, those as_completed has yielded so far, the
   record in hand, the content of the log file and what was read back *)
runVars == <<pc, futures, yielded, current, jsonl, loaded>>

(* the state of a call through backoff.on_exception: the attempts made, the
   requests sent to the provider with what each came to, and the sleeps *)
callVars == <<tries, requests, waits>>

(* the state of generate_truncated_pgns: its loop variables, what
   process_pgn_file returned last, and the files of the output directory *)
genVars == <<halfmoves, generated, input_idx, game, truncated_dir>>

vars ==
  <<fn, args, ret, pc, futures, yielded, current, jsonl, loaded,
    tries, requests, waits,
    halfmoves, generated, input_idx, game, truncated_dir>>

(***************************************************************************)
(* Bounds of the explored inputs: the largest fullmove number written in   *)
(* an input, and the number of tokens an input may have beyond MaxParts.   *)
(***************************************************************************)
MaxFullmove == 3

MaxExtra == 1

(* the number of PGN files of a run and the workers of its executor *)
MaxFiles == 2

MaxWorkers == 2

(* the number of input games of generate_truncated_pgns, and the largest
   max_halfmoves and target_per_halfmove it is called with *)
MaxGames == 2

MaxHalfmoves == 2

MaxTarget == 2

(***************************************************************************)
(* Python values.                                                          *)
(***************************************************************************)
None == << >>

Some(x) == << x >>

Raise(exc) == [tag |-> exc]

Return(v) == [tag |-> "return", value |-> v]

Char(s, i) == SubSeq(s, i, i)

(* characters on which str.split() with no separator splits *)
Whitespace == {" ", "\t", "\n", "\r", "\f"}

Digits == {"0", "1", "2", "3", "4", "5", "6", "7", "8", "9"}

DigitValue(c) ==
  CASE c = "0" -> 0 [] c = "1" -> 1 [] c = "2" -> 2 [] c = "3" -> 3
    [] c = "4" -> 4 [] c = "5" -> 5 [] c = "6" -> 6 [] c = "7" -> 7
    [] c = "8" -> 8 [] c = "9" -> 9

(* str.split(): maximal runs of non-whitespace characters, in order *)
RECURSIVE SplitFrom(_, _, _, _)
SplitFrom(s, i, cur, acc) ==
  IF i > Len(s)
  THEN IF cur = "" THEN acc ELSE Append(acc, cur)
  ELSE IF Char(s, i) \in Whitespace
       THEN SplitFrom(s, i + 1, "", IF cur = "" THEN acc ELSE Append(acc, cur))
       ELSE SplitFrom(s, i + 1, cur \o Char(s, i), acc)

split(s) == SplitFrom(s, 1, "", << >>)

(* a digit character that is not a decimal: str.isdigit() counts it,
   int() does not read it *)
SuperscriptDigits == {"²"}

(* str.isdigit(): non-empty and every character is a digit *)
isdigit(s) ==
  /\ Len(s) > 0
  /\ \A i \in 1..Len(s) : Char(s, i) \in Digits \cup SuperscriptDigits

(***************************************************************************)
(* int(s) for a token s: an optional sign, then decimal digits in which    *)
(* single underscores may separate digits.  Any other text is ValueError.  *)
(***************************************************************************)
IntBody(s) == IF Len(s) > 0 /\ Char(s, 1) \in {"+", "-"} THEN Tail(s) ELSE s

IsIntLiteral(s) ==
  LET b == IntBody(s) IN
    /\ Len(b) > 0
    /\ Char(b, 1) \in Digits
    /\ Char(b, Len(b)) \in Digits
    /\ \A i \in 1..Len(b) : Char(b, i) \in Digits \cup {"_"}
    /\ \A i \in 1..(Len(b) - 1) : ~(Char(b, i) = "_" /\ Char(b, i + 1) = "_")

RECURSIVE DecimalValue(_, _, _)
DecimalValue(b, i, acc) ==
  IF i > Len(b) THEN acc
  ELSE IF Char(b, i) = "_" THEN DecimalValue(b, i + 1, acc)
       ELSE DecimalValue(b, i + 1, 10 * acc + DigitValue(Char(b, i)))

int(s) ==
  IF ~IsIntLiteral(s) THEN Raise("ValueError")
  ELSE LET v == DecimalValue(IntBody(s), 1, 0)
       IN  Return(IF Char(s, 1) = "-" THEN 0 - v ELSE v)

abs(x) == IF x < 0 THEN 0 - x ELSE x

(***************************************************************************)
(* Regular expressions, as re.match applies them.  "$" matches at the end  *)
(* of the string and also just before a newline that ends the string.      *)
(***************************************************************************)
AtDollar(s, i) == i = Len(s) + 1 \/ (i = Len(s) /\ Char(s, i) = "\n")

Files == {"a", "b", "c", "d", "e", "f", "g", "h"}

(* re.match(r"^[a-h][36]$", s) *)
MatchSquare(s) ==
  /\ Len(s) >= 2
  /\ Char(s, 1) \in Files
  /\ Char(s, 2) \in {"3", "6"}
  /\ AtDollar(s, 3)

(* re.match(r"^[-]$", s) *)
MatchDash(s) == Len(s) >= 1 /\ Char(s, 1) = "-" /\ AtDollar(s, 2)

PositionChars ==
  {"r", "n", "b", "q", "k", "p", "R", "N", "B", "Q", "K", "P",
   "1", "2", "3", "4", "5", "6", "7", "8"}

(* [rnbqkpRNBQKP1-8]+ from index i: the index after the run, 0 if no match *)
RECURSIVE RunEnd(_, _)
RunEnd(s, i) ==
  IF i <= Len(s) /\ Char(s, i) \in PositionChars THEN RunEnd(s, i + 1) ELSE i

MatchRun(s, i) == IF RunEnd(s, i) > i THEN RunEnd(s, i) ELSE 0

(* (?:/[rnbqkpRNBQKP1-8]+){k} from index i: the index after it, 0 if none *)
RECURSIVE MatchSlashRuns(_, _, _)
MatchSlashRuns(s, i, k) ==
  IF k = 0 THEN i
  ELSE IF i <= Len(s) /\ Char(s, i) = "/" /\ MatchRun(s, i + 1) # 0
       THEN MatchSlashRuns(s, MatchRun(s, i + 1), k - 1)
       ELSE 0

(* the pattern without its closing "$" *)
fen_position_regex_NoDollar(s) ==
  LET i == MatchRun(s, 1) IN i # 0 /\ MatchSlashRuns(s, i, 7) # 0

(* fen_position_regex.match(s) *)
fen_position_regex(s) ==
  LET i == MatchRun(s, 1) IN
    /\ i # 0
    /\ LET j == MatchSlashRuns(s, i, 7) IN j # 0 /\ AtDollar(s, j)

(***************************************************************************)
(* pgn2fen/utils.py                                                        *)
(***************************************************************************)
is_fen(fen) ==
  LET components == split(fen) IN
    IF Len(components) < 3 \/ Len(components) > 6 THEN FALSE
    ELSE IF ~fen_position_regex(components[1]) THEN FALSE
    ELSE IF \/ ~isdigit(components[Len(components) - 1])
            \/ ~isdigit(components[Len(components)])
         THEN FALSE
         ELSE TRUE

(***************************************************************************)
(* pgn2fen/evaluate.py                                                     *)
(***************************************************************************)
is_en_passant(en_passant) == MatchSquare(en_passant) \/ MatchDash(en_passant)

(***************************************************************************)
(* fen_candidate_regex of extract_fen_from_text, matched from index i of   *)
(* s.  Each piece gives the index after it, 0 if it does not match.  The   *)
(* pieces are separated by literal spaces and no character class holds a   *)
(* space, so giving back characters of a greedy run never helps and the    *)
(* greedy choice is the only match.                                        *)
(***************************************************************************)
MatchChar(s, i, c) ==
  IF i # 0 /\ i <= Len(s) /\ Char(s, i) = c THEN i + 1 ELSE 0

(* [wb] *)
MatchTurn(s, i) ==
  IF i # 0 /\ i <= Len(s) /\ Char(s, i) \in {"w", "b"} THEN i + 1 ELSE 0

(* [KQkq]{1,k} from index i, greedy: the index after it *)
RECURSIVE CastlingRunEnd(_, _, _)
CastlingRunEnd(s, i, k) ==
  IF k > 0 /\ i <= Len(s) /\ Char(s, i) \in {"K", "Q", "k", "q"}
  THEN CastlingRunEnd(s, i + 1, k - 1)
  ELSE i

(* (?:-|[KQkq]{1,4}) *)
MatchCastling(s, i) ==
  IF i = 0 \/ i > Len(s) THEN 0
  ELSE IF Char(s, i) = "-" THEN i + 1
  ELSE IF CastlingRunEnd(s, i, 4) > i THEN CastlingRunEnd(s, i, 4)
  ELSE 0

(* (?:-|[a-h][36]) *)
MatchEnPassant(s, i) ==
  IF i = 0 \/ i > Len(s) THEN 0
  ELSE IF Char(s, i) = "-" THEN i + 1
  ELSE IF /\ i + 1 <= Len(s)
          /\ Char(s, i) \in Files
          /\ Char(s, i + 1) \in {"3", "6"}
  THEN i + 2
  ELSE 0

RECURSIVE DigitRunEnd(_, _)
DigitRunEnd(s, i) ==
  IF i <= Len(s) /\ Char(s, i) \in Digits THEN DigitRunEnd(s, i + 1) ELSE i

(* \d+ *)
MatchDigits(s, i) ==
  IF i # 0 /\ DigitRunEnd(s, i) > i THEN DigitRunEnd(s, i) ELSE 0

(* the whole pattern from index i *)
fen_candidate_regex(s, i) ==
  LET first == MatchRun(s, i)
      placement == IF first = 0 THEN 0 ELSE MatchSlashRuns(s, first, 7)
      turn == MatchTurn(s, MatchChar(s, placement, " "))
      castling == MatchCastling(s, MatchChar(s, turn, " "))
      en_passant == MatchEnPassant(s, MatchChar(s, castling, " "))
      halfmove == MatchDigits(s, MatchChar(s, en_passant, " "))
  IN  MatchDigits(s, MatchChar(s, halfmove, " "))

(* findall: the matches from left to right, each as <<first, last>>; the
   scan goes on after a match and one character further after a failure *)
RECURSIVE FindAll(_, _)
FindAll(s, i) ==
  IF i > Len(s) THEN << >>
  ELSE LET end == fen_candidate_regex(s, i) IN
       IF end # 0 THEN <<<<i, end - 1>>>> \o FindAll(s, end)
       ELSE FindAll(s, i + 1)

extract_fen_from_text(text) ==
  LET matches == FindAll(text, 1) IN
    [k \in 1..Len(matches) |-> SubSeq(text, matches[k][1], matches[k][2])]

(* the last candidate that passes is_fen instead of the first *)
RECURSIVE FirstFen_Last(_)
FirstFen_Last(fens) ==
  IF fens = << >> THEN None
  ELSE IF FirstFen_Last(Tail(fens)) # None THEN FirstFen_Last(Tail(fens))
  ELSE IF is_fen(Head(fens)) THEN Some(Head(fens))
  ELSE None

RECURSIVE FirstFen(_)
FirstFen(fens) ==
  IF fens = << >> THEN None
  ELSE IF is_fen(Head(fens)) THEN Some(Head(fens))
  ELSE FirstFen(Tail(fens))

process_llm_raw_text(llm_raw_text, extract_fen) ==
  IF is_fen(llm_raw_text) THEN Some(llm_raw_text)
  ELSE IF extract_fen THEN FirstFen(extract_fen_from_text(llm_raw_text))
  ELSE None

(* plain equality of the two values *)
compare_en_passant_Exact(true_en_passant, llm_en_passant) ==
  IF true_en_passant = None \/ llm_en_passant = None THEN Return(FALSE)
  ELSE IF ~is_en_passant(true_en_passant[1]) THEN Raise("ValueError")
  ELSE Return(true_en_passant = llm_en_passant)

(* the true value validated before the test for absent values *)
compare_en_passant_ValidateFirst(true_en_passant, llm_en_passant) ==
  IF true_en_passant # None /\ ~is_en_passant(true_en_passant[1])
  THEN Raise("ValueError")
  ELSE IF true_en_passant = None \/ llm_en_passant = None THEN Return(FALSE)
  ELSE IF MatchSquare(true_en_passant[1])
       THEN Return(true_en_passant = llm_en_passant)
       ELSE Return(is_en_passant(llm_en_passant[1]))

compare_en_passant(true_en_passant, llm_en_passant) ==
  IF true_en_passant = None \/ llm_en_passant = None THEN Return(FALSE)
  ELSE IF ~is_en_passant(true_en_passant[1]) THEN Raise("ValueError")
  ELSE IF MatchSquare(true_en_passant[1])
       THEN Return(true_en_passant = llm_en_passant)
       ELSE Return(is_en_passant(llm_en_passant[1]))

(* the fewest and the most parts prepare_llm_fen accepts *)
MinParts == 3

MaxParts == 6

CastlingTokens == {"KQkq", "KQ", "kq", "K", "Q", "k", "q", "-"}

(* a token of no known shape kept as the en-passant value *)
RECURSIVE InferLoop_KeepUnknown(_, _, _)
InferLoop_KeepUnknown(parts, i, acc) ==
  IF i > Len(parts) - 2 THEN acc
  ELSE LET part == parts[i] IN
       IF part = "w" \/ part = "b"
       THEN InferLoop_KeepUnknown(parts, i + 1, [acc EXCEPT ![1] = Some(part)])
       ELSE IF part \in CastlingTokens
       THEN InferLoop_KeepUnknown(parts, i + 1, [acc EXCEPT ![2] = Some(part)])
       ELSE InferLoop_KeepUnknown(parts, i + 1, [acc EXCEPT ![3] = Some(part)])

(* the en-passant test made before the castling test *)
RECURSIVE InferLoop_EnPassantFirst(_, _, _)
InferLoop_EnPassantFirst(parts, i, acc) ==
  IF i > Len(parts) - 2 THEN acc
  ELSE LET part == parts[i] IN
       IF part = "w" \/ part = "b"
       THEN InferLoop_EnPassantFirst(parts, i + 1,
                                     [acc EXCEPT ![1] = Some(part)])
       ELSE IF is_en_passant(part)
       THEN InferLoop_EnPassantFirst(parts, i + 1,
                                     [acc EXCEPT ![3] = Some(part)])
       ELSE IF part \in CastlingTokens
       THEN InferLoop_EnPassantFirst(parts, i + 1,
                                     [acc EXCEPT ![2] = Some(part)])
       ELSE InferLoop_EnPassantFirst(parts, i + 1, acc)

(* a token of no known shape clears the en-passant value found so far *)
RECURSIVE InferLoop_UnknownClears(_, _, _)
InferLoop_UnknownClears(parts, i, acc) ==
  IF i > Len(parts) - 2 THEN acc
  ELSE LET part == parts[i] IN
       IF part = "w" \/ part = "b"
       THEN InferLoop_UnknownClears(parts, i + 1, [acc EXCEPT ![1] = Some(part)])
       ELSE IF part \in CastlingTokens
       THEN InferLoop_UnknownClears(parts, i + 1, [acc EXCEPT ![2] = Some(part)])
       ELSE IF is_en_passant(part)
       THEN InferLoop_UnknownClears(parts, i + 1, [acc EXCEPT ![3] = Some(part)])
       ELSE InferLoop_UnknownClears(parts, i + 1, [acc EXCEPT ![3] = None])

(* a field keeps the first token found for it *)
RECURSIVE InferLoop_FirstWins(_, _, _)
InferLoop_FirstWins(parts, i, acc) ==
  IF i > Len(parts) - 2 THEN acc
  ELSE LET part == parts[i] IN
       IF part = "w" \/ part = "b"
       THEN InferLoop_FirstWins(parts, i + 1,
              IF acc[1] = None THEN [acc EXCEPT ![1] = Some(part)] ELSE acc)
       ELSE IF part \in CastlingTokens
       THEN InferLoop_FirstWins(parts, i + 1,
              IF acc[2] = None THEN [acc EXCEPT ![2] = Some(part)] ELSE acc)
       ELSE IF is_en_passant(part)
       THEN InferLoop_FirstWins(parts, i + 1,
              IF acc[3] = None THEN [acc EXCEPT ![3] = Some(part)] ELSE acc)
       ELSE InferLoop_FirstWins(parts, i + 1, acc)

(* the loop of infer_missing_parts over parts[1:-2], one token per step *)
RECURSIVE InferLoop(_, _, _)
InferLoop(parts, i, acc) ==
  IF i > Len(parts) - 2 THEN acc
  ELSE LET part == parts[i] IN
       IF part = "w" \/ part = "b"
       THEN InferLoop(parts, i + 1, [acc EXCEPT ![1] = Some(part)])
       ELSE IF part \in CastlingTokens
       THEN InferLoop(parts, i + 1, [acc EXCEPT ![2] = Some(part)])
       ELSE IF is_en_passant(part)
       THEN InferLoop(parts, i + 1, [acc EXCEPT ![3] = Some(part)])
       ELSE InferLoop(parts, i + 1, acc)

(* the middle tokens taken by position *)
infer_missing_parts_ByPosition(parts) ==
  <<IF Len(parts) >= 4 THEN Some(parts[2]) ELSE None,
    IF Len(parts) >= 5 THEN Some(parts[3]) ELSE None,
    None>>

(* a missing en-passant field filled in with "-" *)
infer_missing_parts_DefaultEnPassant(parts) ==
  LET inferred == InferLoop(parts, 2, <<None, None, None>>) IN
    IF inferred[3] = None THEN [inferred EXCEPT ![3] = Some("-")]
    ELSE inferred

infer_missing_parts(parts) == InferLoop(parts, 2, <<None, None, None>>)

(* FEN(...) with int(p5), int(p6) evaluated in argument order *)
MakeFEN(p1, p2, p3, p4, p5, p6) ==
  IF int(p5).tag # "return" THEN int(p5)
  ELSE IF int(p6).tag # "return" THEN int(p6)
  ELSE [tag |-> "FEN", piece_placement |-> p1, turn |-> p2, castling |-> p3,
        en_passant |-> p4, halfmove_clock |-> int(p5).value,
        fullmove_number |-> int(p6).value]

(* the inference applied to six parts as well *)
prepare_llm_fen_InferSix(fen_str) ==
  LET parts == split(fen_str)
      n == Len(parts)
  IN  IF n < 2 THEN Raise("IndexError")
      ELSE IF n < MinParts THEN Raise("ValueError")
      ELSE IF n > MaxParts THEN Raise("ValueError")
      ELSE LET inferred == infer_missing_parts(parts)
           IN  MakeFEN(parts[1], inferred[1], inferred[2], inferred[3],
                       parts[n - 1], parts[n])

prepare_llm_fen(fen_str) ==
  LET parts == split(fen_str)
      n == Len(parts)
  IN  IF n < 2 THEN Raise("IndexError")     \* parts[0], parts[-2]
      ELSE IF n < MinParts THEN Raise("ValueError")
      ELSE IF n > MaxParts THEN Raise("ValueError")
      ELSE IF MinParts <= n /\ n < MaxParts
      THEN LET inferred == infer_missing_parts(parts)
           IN  MakeFEN(parts[1], inferred[1], inferred[2], inferred[3],
                       parts[n - 1], parts[n])
      ELSE MakeFEN(parts[1], Some(parts[2]), Some(parts[3]), Some(parts[4]),
                   parts[n - 1], parts[n])

(* only too few parts rejected *)
prepare_true_fen_AtLeastSix(fen_str) ==
  LET parts == split(fen_str) IN
    IF Len(parts) < 6 THEN Raise("ValueError")
    ELSE MakeFEN(parts[1], Some(parts[2]), Some(parts[3]), Some(parts[4]),
                 parts[5], parts[6])

prepare_true_fen(fen_str) ==
  LET parts == split(fen_str) IN
    IF Len(parts) # 6 THEN Raise("ValueError")
    ELSE MakeFEN(parts[1], Some(parts[2]), Some(parts[3]), Some(parts[4]),
                 parts[5], parts[6])

(* the difference without abs *)
fullmove_number_comparison_func_NoAbs(x, y) == x - y <= 1

(* the lambda compare_fens passes as fullmove_number_comparison_func *)
fullmove_number_comparison_func(x, y) == abs(x - y) <= 1

(* en_passant compared by the default equality *)
compare_to_DefaultEnPassant(self, other) ==
  [tag |-> "dict",
   piece_placement |-> self.piece_placement = other.piece_placement,
   turn |-> self.turn = other.turn,
   castling |-> self.castling = other.castling,
   en_passant |-> self.en_passant = other.en_passant,
   halfmove_clock |-> self.halfmove_clock = other.halfmove_clock,
   fullmove_number |->
     fullmove_number_comparison_func(self.fullmove_number,
                                     other.fullmove_number)]

(* FEN.compare_to with both comparison functions supplied *)
compare_to(self, other) ==
  LET ep == compare_en_passant(self.en_passant, other.en_passant) IN
    IF ep.tag # "return" THEN ep
    ELSE [tag |-> "dict",
          piece_placement |-> self.piece_placement = other.piece_placement,
          turn |-> self.turn = other.turn,
          castling |-> self.castling = other.castling,
          en_passant |-> ep.value,
          halfmove_clock |-> self.halfmove_clock = other.halfmove_clock,
          fullmove_number |->
            fullmove_number_comparison_func(self.fullmove_number,
                                            other.fullmove_number)]

(* full_correctness computed with any() *)
compare_fens_Any(true_fen, llm_fen) ==
  LET comparison == compare_to(true_fen, llm_fen) IN
    IF comparison.tag # "dict" THEN comparison
    ELSE [tag |-> "FENEvaluation",
          full_correctness |->
            \/ comparison.piece_placement
            \/ comparison.turn
            \/ comparison.castling
            \/ comparison.en_passant
            \/ comparison.halfmove_clock
            \/ comparison.fullmove_number,
          piece_placement |-> comparison.piece_placement,
          turn |-> comparison.turn,
          castling |-> comparison.castling,
          en_passant |-> comparison.en_passant,
          halfmove_clock |-> comparison.halfmove_clock,
          fullmove_number |-> comparison.fullmove_number]

compare_fens(true_fen, llm_fen) ==
  LET comparison == compare_to(true_fen, llm_fen) IN
    IF comparison.tag # "dict" THEN comparison
    ELSE [tag |-> "FENEvaluation",
          full_correctness |->
            /\ comparison.piece_placement
            /\ comparison.turn
            /\ comparison.castling
            /\ comparison.en_passant
            /\ comparison.halfmove_clock
            /\ comparison.fullmove_number,
          piece_placement |-> comparison.piece_placement,
          turn |-> comparison.turn,
          castling |-> comparison.castling,
          en_passant |-> comparison.en_passant,
          halfmove_clock |-> comparison.halfmove_clock,
          fullmove_number |-> comparison.fullmove_number]

(* FENEvaluation(False, False, False, False, False, False, False) *)
AllFalse ==
  [tag |-> "FENEvaluation", full_correctness |-> FALSE,
   piece_placement |-> FALSE, turn |-> FALSE, castling |-> FALSE,
   en_passant |-> FALSE, halfmove_clock |-> FALSE, fullmove_number |-> FALSE]

PGN2FENExperiment(pgn_file, now, llm_raw_text, llm_fen, evaluation) ==
  [tag |-> "PGN2FENExperiment",
   game_info |-> [datetime |-> now,
                  input_pgn_file |-> pgn_file.path,
                  input_fen |-> pgn_file.board_fen,
                  number_of_halfmoves |-> pgn_file.halfmoves],
   llm_info |-> [provider |-> "google", model |-> "gemini-2.0-flash-001",
                 llm_raw_text |-> llm_raw_text, llm_fen |-> llm_fen],
   evaluation |-> evaluation]

(* process_single_pgn from the comparison on: both records are parsed *)
Compared(pgn_file, now, llm_raw_text, llm_fen, evaluation) ==
  IF evaluation.tag # "FENEvaluation" THEN evaluation
  ELSE PGN2FENExperiment(pgn_file, now, llm_raw_text, llm_fen, evaluation)

(* process_single_pgn from the two prepare calls on: an exception of either
   leaves the function *)
Prepared(pgn_file, now, llm_raw_text, llm_fen, parsed_board_fen, parsed_llm_fen) ==
  IF parsed_board_fen.tag # "FEN" THEN parsed_board_fen
  ELSE IF parsed_llm_fen.tag # "FEN" THEN parsed_llm_fen
  ELSE Compared(pgn_file, now, llm_raw_text, llm_fen,
                compare_fens(parsed_board_fen, parsed_llm_fen))

(* process_single_pgn from the test of the candidate on *)
Evaluated(pgn_file, now, llm_raw_text, llm_fen) ==
  IF llm_fen # None /\ is_fen(llm_fen[1])
  THEN Prepared(pgn_file, now, llm_raw_text, llm_fen,
                prepare_true_fen(pgn_file.board_fen),
                prepare_llm_fen(llm_fen[1]))
  ELSE PGN2FENExperiment(pgn_file, now, llm_raw_text, llm_fen, AllFalse)

(* process_single_pgn: pgn_file stands for the file and the board parsed
   from it, response for what get_fen does, now for datetime.now() *)
process_single_pgn(pgn_file, response, extract_fen, now) ==
  IF response.tag # "return" THEN Raise("RuntimeError")
  ELSE Evaluated(pgn_file, now, response.value,
                 process_llm_raw_text(response.value, extract_fen))

DigitChar(d) == SubSeq("0123456789", d + 1, d + 1)

RECURSIVE IntToStr(_)
IntToStr(k) ==
  IF k < 10 THEN DigitChar(k) ELSE IntToStr(k \div 10) \o DigitChar(k % 10)

(***************************************************************************)
(* json.dumps of asdict(experiment), as run_experiment writes it: the      *)
(* default separators ", " and ": ", the fields in dataclass order, and    *)
(* ensure_ascii, which leaves no character outside ASCII and no control    *)
(* character unescaped.                                                    *)
(***************************************************************************)
json_escape_Raw(c) ==
  IF c = "\"" THEN "\\\""
  ELSE IF c = "\\" THEN "\\\\"
  ELSE c

json_escape(c) ==
  IF c = "\"" THEN "\\\""
  ELSE IF c = "\\" THEN "\\\\"
  ELSE IF c = "\n" THEN "\\n"
  ELSE IF c = "\r" THEN "\\r"
  ELSE IF c = "\t" THEN "\\t"
  ELSE IF c = "\f" THEN "\\f"
  ELSE IF c = "²" THEN "\\u00b2"
  ELSE c

Min(S) == CHOOSE x \in S : \A y \in S : x <= y

(* the text of s from index i with every character escaped that needs it;
   the characters between two escapes are copied as they are *)
RECURSIVE EscapeFrom(_, _)
EscapeUpTo(s, i, escaped) ==
  IF escaped = {} THEN SubSeq(s, i, Len(s))
  ELSE SubSeq(s, i, Min(escaped) - 1)
       \o json_escape(Char(s, Min(escaped)))
       \o EscapeFrom(s, Min(escaped) + 1)

EscapeFrom(s, i) ==
  EscapeUpTo(s, i, {j \in i..Len(s) : json_escape(Char(s, j)) # Char(s, j)})

dumps_str(s) == "\"" \o EscapeFrom(s, 1) \o "\""

dumps_optional(o) == IF o = None THEN "null" ELSE dumps_str(o[1])

dumps_bool(b) == IF b THEN "true" ELSE "false"

dumps_game_info(g) ==
  "{\"datetime\": " \o dumps_str(g.datetime)
  \o ", \"input_pgn_file\": " \o dumps_str(g.input_pgn_file)
  \o ", \"input_fen\": " \o dumps_str(g.input_fen)
  \o ", \"number_of_halfmoves\": " \o IntToStr(g.number_of_halfmoves) \o "}"

dumps_evaluation(e) ==
  "{\"full_correctness\": " \o dumps_bool(e.full_correctness)
  \o ", \"piece_placement\": " \o dumps_bool(e.piece_placement)
  \o ", \"turn\": " \o dumps_bool(e.turn)
  \o ", \"castling\": " \o dumps_bool(e.castling)
  \o ", \"en_passant\": " \o dumps_bool(e.en_passant)
  \o ", \"halfmove_clock\": " \o dumps_bool(e.halfmove_clock)
  \o ", \"fullmove_number\": " \o dumps_bool(e.fullmove_number) \o "}"

(* the llm_info object of a log written before llm_raw_text existed *)
dumps_llm_info_WithoutRawText(l) ==
  "{\"provider\": " \o dumps_str(l.provider)
  \o ", \"model\": " \o dumps_str(l.model)
  \o ", \"llm_fen\": " \o dumps_optional(l.llm_fen) \o "}"

dumps_llm_info(l) ==
  "{\"provider\": " \o dumps_str(l.provider)
  \o ", \"model\": " \o dumps_str(l.model)
  \o ", \"llm_raw_text\": " \o dumps_str(l.llm_raw_text)
  \o ", \"llm_fen\": " \o dumps_optional(l.llm_fen) \o "}"

(* json.dumps with indent: a member per line *)
json_dumps_Indented(experiment) ==
  "{\n \"game_info\": " \o dumps_game_info(experiment.game_info)
  \o ",\n \"llm_info\": " \o dumps_llm_info(experiment.llm_info)
  \o ",\n \"evaluation\": " \o dumps_evaluation(experiment.evaluation)
  \o "\n}"

json_dumps(experiment) ==
  "{\"game_info\": " \o dumps_game_info(experiment.game_info)
  \o ", \"llm_info\": " \o dumps_llm_info(experiment.llm_info)
  \o ", \"evaluation\": " \o dumps_evaluation(experiment.evaluation) \o "}"

(***************************************************************************)
(* json.loads, for the values these logs hold: objects, strings, integers, *)
(* true, false and null.  A parsed value carries its JSON type; a parse    *)
(* step gives the value and the index after it, or fails.                  *)
(***************************************************************************)
Fail == [ok |-> FALSE]

Ok(v, i) == [ok |-> TRUE, value |-> v, next |-> i]

JsonNull == [t |-> "null"]

JsonWhitespace == {" ", "\t", "\n", "\r"}

RECURSIVE SkipWhitespace(_, _)
SkipWhitespace(s, i) ==
  IF i <= Len(s) /\ Char(s, i) \in JsonWhitespace
  THEN SkipWhitespace(s, i + 1)
  ELSE i

ParseLiteral(s, i, word, v) ==
  IF i + Len(word) - 1 <= Len(s) /\ SubSeq(s, i, i + Len(word) - 1) = word
  THEN Ok(v, i + Len(word))
  ELSE Fail

(* the character a backslash escape stands for, from the index after it *)
Unescape(s, i) ==
  IF i > Len(s) THEN Fail
  ELSE LET c == Char(s, i) IN
       IF c = "n" THEN Ok("\n", i + 1)
       ELSE IF c = "r" THEN Ok("\r", i + 1)
       ELSE IF c = "t" THEN Ok("\t", i + 1)
       ELSE IF c = "f" THEN Ok("\f", i + 1)
       ELSE IF c \in {"\"", "\\", "/"} THEN Ok(c, i + 1)
       ELSE IF c = "u" /\ i + 4 <= Len(s) /\ SubSeq(s, i + 1, i + 4) = "00b2"
       THEN Ok("²", i + 5)
       ELSE Fail

(* the backslashes that stand in a row just before index j, from i on *)
RECURSIVE BackslashesBefore(_, _, _)
BackslashesBefore(s, i, j) ==
  IF j > i /\ Char(s, j - 1) = "\\"
  THEN 1 + BackslashesBefore(s, i, j - 1)
  ELSE 0

MinOr(S, otherwise) == IF S = {} THEN otherwise ELSE Min(S)

(* the quote that closes the string whose text starts at index i: the
   first one that is not escaped; 0 if there is none *)
ClosingQuote(s, i) ==
  MinOr({j \in i..Len(s) : /\ Char(s, j) = "\""
                           /\ BackslashesBefore(s, i, j) % 2 = 0}, 0)

(* the characters of s from i to end with the escapes replaced *)
RECURSIVE Decode(_, _, _)
DecodeRest(s, i, k, e, rest) ==
  IF ~rest.ok THEN Fail
  ELSE Ok(SubSeq(s, i, k - 1) \o e.value \o rest.value, rest.next)

DecodeEscape(s, i, end, k, e) ==
  IF ~e.ok \/ e.next > end + 1 THEN Fail
  ELSE DecodeRest(s, i, k, e, Decode(s, e.next, end))

DecodeUpTo(s, i, end, escapes) ==
  IF escapes = {} THEN Ok(SubSeq(s, i, end), end + 1)
  ELSE DecodeEscape(s, i, end, Min(escapes), Unescape(s, Min(escapes) + 1))

Decode(s, i, end) ==
  DecodeUpTo(s, i, end, {j \in i..end : Char(s, j) = "\\"})

StringOf(text, close) ==
  IF ~text.ok THEN Fail
  ELSE Ok([t |-> "str", v |-> text.value], close + 1)

(* a string whose closing quote is at index close; a control character
   inside it is an error *)
StringUpTo(s, i, close) ==
  IF close = 0 THEN Fail
  ELSE IF \E j \in i..(close - 1) : Char(s, j) \in {"\n", "\r", "\t", "\f"}
  THEN Fail
  ELSE StringOf(Decode(s, i, close - 1), close)

(* a string from the index after its opening quote *)
ParseString(s, i) == StringUpTo(s, i, ClosingQuote(s, i))

IntUpTo(s, i, first, end) ==
  IF end = first THEN Fail
  ELSE Ok([t |-> "int", v |-> int(SubSeq(s, i, end - 1)).value], end)

IntFrom(s, i, first) == IntUpTo(s, i, first, DigitRunEnd(s, first))

ParseInt(s, i) ==
  IntFrom(s, i, IF i <= Len(s) /\ Char(s, i) = "-" THEN i + 1 ELSE i)

RECURSIVE ParseValue(_, _)
RECURSIVE MemberAt(_, _, _)
(* after a member: "," and the next member, or "}" *)
AtSeparator(s, k, acc) ==
  IF k > Len(s) THEN Fail
  ELSE IF Char(s, k) = "," THEN MemberAt(s, SkipWhitespace(s, k + 1), acc)
  ELSE IF Char(s, k) = "}" THEN Ok([t |-> "dict", v |-> acc], k + 1)
  ELSE Fail

(* a key given twice keeps its last value *)
AfterValue(s, name, val, acc) ==
  IF ~val.ok THEN Fail
  ELSE AtSeparator(s, SkipWhitespace(s, val.next), (name :> val.value) @@ acc)

AtColon(s, name, k, acc) ==
  IF k > Len(s) \/ Char(s, k) # ":" THEN Fail
  ELSE AfterValue(s, name, ParseValue(s, k + 1), acc)

AfterKey(s, key, acc) ==
  IF ~key.ok THEN Fail
  ELSE AtColon(s, key.value.v, SkipWhitespace(s, key.next), acc)

(* a member of an object: its key starts at index k *)
MemberAt(s, k, acc) ==
  IF k > Len(s) \/ Char(s, k) # "\"" THEN Fail
  ELSE AfterKey(s, ParseString(s, k + 1), acc)

(* an object from the index after "{" and the whitespace behind it *)
ObjectAt(s, k) ==
  IF k <= Len(s) /\ Char(s, k) = "}"
  THEN Ok([t |-> "dict", v |-> << >>], k + 1)
  ELSE MemberAt(s, k, << >>)

ValueAt(s, k) ==
  IF k > Len(s) THEN Fail
  ELSE IF Char(s, k) = "{" THEN ObjectAt(s, SkipWhitespace(s, k + 1))
  ELSE IF Char(s, k) = "\"" THEN ParseString(s, k + 1)
  ELSE IF Char(s, k) = "t"
  THEN ParseLiteral(s, k, "true", [t |-> "bool", v |-> TRUE])
  ELSE IF Char(s, k) = "f"
  THEN ParseLiteral(s, k, "false", [t |-> "bool", v |-> FALSE])
  ELSE IF Char(s, k) = "n" THEN ParseLiteral(s, k, "null", JsonNull)
  ELSE ParseInt(s, k)

ParseValue(s, i) == ValueAt(s, SkipWhitespace(s, i))

(* the whole text is one value: nothing but whitespace follows it *)
Loaded(s, r) ==
  IF r.ok /\ SkipWhitespace(s, r.next) = Len(s) + 1
  THEN Return(r.value)
  ELSE Raise("JSONDecodeError")

json_loads(s) == Loaded(s, ParseValue(s, 1))

(***************************************************************************)
(* load_experiments_from_jsonl.                                            *)
(***************************************************************************)
(* the index of the first newline from index i, Len(content) if none *)
LineEnd(content, i) ==
  MinOr({j \in i..Len(content) : Char(content, j) = "\n"}, Len(content))

(* the lines of a text file from index i, each with its newline *)
RECURSIVE ReadLines(_, _)
LinesUpTo(content, i, end) ==
  <<SubSeq(content, i, end)>> \o ReadLines(content, end + 1)

ReadLines(content, i) ==
  IF i > Len(content) THEN << >>
  ELSE LinesUpTo(content, i, LineEnd(content, i))

HasKeys(d, keys) == d.t = "dict" /\ \A k \in keys : k \in DOMAIN d.v

(* the Python value of a parsed string, integer, boolean; None for null *)
FromJson(j) == IF j.t = "null" THEN None ELSE j.v

(* the same for a field the records hold as an optional *)
OptionalFromJson(j) == IF j.t = "null" THEN None ELSE Some(j.v)

ExperimentFromData(data) ==
  IF ~HasKeys(data, {"game_info", "llm_info", "evaluation"}) THEN Raise("KeyError")
  ELSE LET g == data.v["game_info"]
           l == data.v["llm_info"]
           e == data.v["evaluation"]
       IN
    IF \/ ~HasKeys(g, {"datetime", "input_pgn_file", "input_fen",
                       "number_of_halfmoves"})
       \/ ~HasKeys(l, {"provider", "model", "llm_fen"})
       \/ ~HasKeys(e, {"piece_placement", "turn", "castling", "en_passant",
                       "halfmove_clock", "fullmove_number",
                       "full_correctness"})
    THEN Raise("KeyError")
    ELSE [tag |-> "PGN2FENExperiment",
          game_info |->
            [datetime |-> FromJson(g.v["datetime"]),
             input_pgn_file |-> FromJson(g.v["input_pgn_file"]),
             input_fen |-> FromJson(g.v["input_fen"]),
             number_of_halfmoves |-> FromJson(g.v["number_of_halfmoves"])],
          llm_info |->
            [provider |-> FromJson(l.v["provider"]),
             model |-> FromJson(l.v["model"]),
             llm_raw_text |->
               FromJson(IF "llm_raw_text" \in DOMAIN l.v
                        THEN l.v["llm_raw_text"] ELSE l.v["llm_fen"]),
             llm_fen |-> OptionalFromJson(l.v["llm_fen"])],
          evaluation |->
            [tag |-> "FENEvaluation",
             full_correctness |-> FromJson(e.v["full_correctness"]),
             piece_placement |-> FromJson(e.v["piece_placement"]),
             turn |-> FromJson(e.v["turn"]),
             castling |-> FromJson(e.v["castling"]),
             en_passant |-> FromJson(e.v["en_passant"]),
             halfmove_clock |-> FromJson(e.v["halfmove_clock"]),
             fullmove_number |-> FromJson(e.v["fullmove_number"])]]

RECURSIVE LoadLines(_, _)
(* the experiment built from a line is appended, an exception leaves *)
LoadExperiment(lines, experiments, experiment) ==
  IF experiment.tag # "PGN2FENExperiment" THEN experiment
  ELSE LoadLines(Tail(lines), Append(experiments, experiment))

LoadData(lines, experiments, data) ==
  IF data.tag # "return" THEN data
  ELSE LoadExperiment(lines, experiments, ExperimentFromData(data.value))

LoadLines(lines, experiments) ==
  IF lines = << >> THEN Return(experiments)
  ELSE IF Head(lines) = "\n" THEN LoadLines(Tail(lines), experiments)
  ELSE LoadData(lines, experiments, json_loads(Head(lines)))

load_experiments_from_jsonl(content) ==
  LoadLines(ReadLines(content, 1), << >>)

(***************************************************************************)
(* Inputs.  A text is a sequence of tokens joined by single spaces; the    *)
(* tokens are a placement, up to MaxParts - MinParts middle tokens, the    *)
(* two counters and up to MaxExtra further tokens.  Every prefix of such a *)
(* text is an input too, down to the empty string.                         *)
(***************************************************************************)
EmptyBoard == "8/8/8/8/8/8/8/8"

StartBoard == "rnbqkbnr/pppppppp/8/8/8/8/PPPPPPPP/RNBQKBNR"

(* placements fen_position_regex rejects *)
BadBoards ==
  {"8/8/8/8/8/8/8", "8/8/8/8/8/8/8/8/8", "8/8/8//8/8/8/8", "/8/8/8/8/8/8/8",
   "8/8/8/8/8/8/8/", "8/8/8/8/8/8/8/x", "9/8/8/8/8/8/8/8", "8/8/8/8/8/8/8/8/"}

(* "5" fits none of the three middle fields and is an integer literal *)
MiddleTokens == {"w", "b", "KQkq", "-", "a3", "5"}

HalfmoveTokens == {"0", "-1", "x"}

FullmoveTokens == {IntToStr(k) : k \in 1..MaxFullmove} \cup {"+1", "-1", "x"}

SeqsUpTo(S, k) == UNION {[1..m -> S] : m \in 0..k}

RECURSIVE Join(_)
Join(toks) ==
  IF toks = << >> THEN ""
  ELSE IF Len(toks) = 1 THEN toks[1]
  ELSE toks[1] \o " " \o Join(Tail(toks))

FullTokenLists ==
  {<<EmptyBoard>> \o mid \o <<h, f>> \o extra :
     mid \in SeqsUpTo(MiddleTokens, MaxParts - MinParts),
     h \in HalfmoveTokens, f \in FullmoveTokens,
     extra \in SeqsUpTo({"2"}, MaxExtra)}

Prefixes(toks) == {SubSeq(toks, 1, k) : k \in 0..Len(toks)}

(* texts whose tokens are separated by other whitespace than one space *)
WhitespaceStrings ==
  {" ", "\n", " 8/8/8/8/8/8/8/8  w\tKQkq - 0 1\n", "8/8/8/8/8/8/8/8\n0\n1",
   "\t8/8/8/8/8/8/8/8 ", " 8/8/8/8/8/8/8/8 a3  w KQkq zz 0 1 "}

ReplaceAt(toks, i, tok) == [toks EXCEPT ![i] = tok]

DropAt(toks, i) == SubSeq(toks, 1, i - 1) \o SubSeq(toks, i + 1, Len(toks))

SwapAt(toks, i, j) == [toks EXCEPT ![i] = toks[j], ![j] = toks[i]]

(* six-field encodings as test_fen_extraction embeds them *)
BaseEncodings ==
  {<<EmptyBoard, "w", "KQkq", "-", "0", "1">>,
   <<StartBoard, "b", "-", "e3", "0", "1">>}

WellFormedEncodings ==
  {<<board, turn, castling, ep, "0", "1">> :
     board \in {EmptyBoard, StartBoard}, turn \in {"w", "b"},
     castling \in {"-", "KQkq", "k"}, ep \in {"-", "e3"}}

(* one field of another shape, one field missing, two fields exchanged *)
DamagedEncodings ==
  UNION {{ReplaceAt(base, 1, "8/8/8/8/8/8/8"), ReplaceAt(base, 2, "a"),
          ReplaceAt(base, 3, "qqqq"), ReplaceAt(base, 3, "kK"),
          ReplaceAt(base, 3, "x"), ReplaceAt(base, 4, "e4"),
          ReplaceAt(base, 5, "x"), ReplaceAt(base, 6, "x"),
          SwapAt(base, 1, 2), SwapAt(base, 2, 3), SwapAt(base, 3, 4),
          SwapAt(base, 4, 5)}
         \cup {DropAt(base, i) : i \in 1..6} : base \in BaseEncodings}

EmbeddedEncodings ==
  {Join(toks) : toks \in WellFormedEncodings \cup DamagedEncodings}

TextBefore == {"", "FEN: ", "Sure!\nPosition after move 12 is "}

TextAfter == {"", " is the position.", "\n"}

TextBetween == {" then ", "\n"}

Texts ==
  {before \o fen \o after :
     before \in TextBefore, fen \in EmbeddedEncodings, after \in TextAfter}
  \cup {Join(one) \o between \o Join(two) :
          one \in BaseEncodings, two \in BaseEncodings,
          between \in TextBetween}

(* texts with a second square and further castling tokens in the middle *)
RepeatedFieldStrings ==
  {Join(<<EmptyBoard>> \o mid \o <<"0", "1">>) :
     mid \in SeqsUpTo({"a3", "e6", "K", "q"}, MaxParts - MinParts)}

(* texts with a counter written as a superscript digit *)
SuperscriptStrings ==
  {"8/8/8/8/8/8/8/8 w - - 0 ²", "8/8/8/8/8/8/8/8 w - - ² 1",
   "8/8/8/8/8/8/8/8 0 1²", "8/8/8/8/8/8/8/8 b ²"}

FenStrings ==
  {Join(toks) : toks \in UNION {Prefixes(full) : full \in FullTokenLists}}
  \cup WhitespaceStrings \cup RepeatedFieldStrings \cup SuperscriptStrings

(* the files of a benchmark run with the position python-chess reports *)
PgnFiles ==
  {[path |-> "dataset/a.pgn", halfmoves |-> 0,
    board_fen |-> StartBoard \o " w KQkq - 0 1"],
   [path |-> "dataset/b.pgn", halfmoves |-> 3,
    board_fen |-> EmptyBoard \o " b - e3 0 2"]}

Clock == {"2025-05-01 12:00:00.000001"}

(* the files of a run, file i with the position after i halfmoves *)
PgnFile(i) ==
  [path |-> "dataset/" \o IntToStr(i) \o ".pgn", halfmoves |-> i,
   board_fen |-> EmptyBoard \o (IF i % 2 = 1 THEN " b - e3 0 " ELSE " w - - 0 ")
                           \o IntToStr(1 + i \div 2)]

pgn_input_files == [i \in 1..MaxFiles |-> PgnFile(i)]

(* what get_fen does in a run: the position of file 1, a reply in prose, a
   counter in superscript, or an error of the provider *)
RunResponses ==
  {Return("8/8/8/8/8/8/8/8 b - e3 0 1"),
   Return("Sure!\nThe \"FEN\" is:\t8/8/8/8/8/8/8/8 w - - 0 1"),
   Return("8/8/8/8/8/8/8/8 w - - 0 ²"),
   Raise("APIError")}

(* a record of an earlier run *)
EarlierExperiment(text) ==
  process_single_pgn(PgnFile(0), Return(text), FALSE,
                     "2024-12-31 23:59:59.999999")

Blank == [kind |-> "blank"]

Record(e) == [kind |-> "record", experiment |-> e]

NoRawText(e) == [kind |-> "no_raw_text", experiment |-> e]

(* the entries a log file has before a run: blank lines, lines of records,
   and lines written without the llm_raw_text key *)
ExistingLogs ==
  {<< >>,
   <<NoRawText(EarlierExperiment("8/8/8/8/8/8/8/8 w - - 0 1"))>>,
   <<Blank, NoRawText(EarlierExperiment("no idea")), Blank, Blank,
     Record(EarlierExperiment("The FEN:\n8/8/8/8/8/8/8/8 w - - 0 1"))>>}

EntryText(entry) ==
  IF entry.kind = "blank" THEN "\n"
  ELSE IF entry.kind = "record" THEN json_dumps(entry.experiment) \o "\n"
  ELSE "{\"game_info\": " \o dumps_game_info(entry.experiment.game_info)
       \o ", \"llm_info\": "
       \o dumps_llm_info_WithoutRawText(entry.experiment.llm_info)
       \o ", \"evaluation\": "
       \o dumps_evaluation(entry.experiment.evaluation) \o "}\n"

RECURSIVE LogText(_)
LogText(entries) ==
  IF entries = << >> THEN ""
  ELSE EntryText(Head(entries)) \o LogText(Tail(entries))


(* what get_fen does: it returns the text of the model or raises *)
Responses ==
  {Return(text) :
     text \in Texts \cup RepeatedFieldStrings \cup SuperscriptStrings
              \cup WhitespaceStrings \cup {""}}
  \cup {Raise("APIError")}

(* texts with other placements, for is_fen *)
BoardStrings ==
  {Join(<<b>> \o mid \o <<h, f>>) :
     b \in BadBoards \cup {StartBoard}, mid \in SeqsUpTo(MiddleTokens, 1),
     h \in HalfmoveTokens, f \in FullmoveTokens}

(* ground-truth texts: six tokens, the en-passant token not always valid *)
TrueStrings ==
  {Join(<<b, "w", "KQkq", e, "0", IntToStr(f)>>) :
     b \in {EmptyBoard, StartBoard}, e \in {"-", "a3", "zz"},
     f \in 1..MaxFullmove}

IsFENResult(r) == r.tag = "FEN"

(* records for compare_fens: parsed ground truths, and records with absent
   fields that only the FEN constructor or prepare_llm_fen can produce *)
TrueFens ==
  {r \in {prepare_true_fen(s) : s \in TrueStrings}
         \cup {prepare_llm_fen(s) :
                 s \in {"8/8/8/8/8/8/8/8 0 1", "8/8/8/8/8/8/8/8 w KQkq 0 1"}} :
     IsFENResult(r)}

LlmFens == {r \in {prepare_llm_fen(s) : s \in FenStrings} : IsFENResult(r)}

EnPassantTokens ==
  {"-", "a3", "e6", "h6", "a4", "e2", "i3", "A3", "3a", "a36", "--", "zz",
   "w", "K"}

EnPassantValues == {None} \cup {Some(x) : x \in EnPassantTokens}

(***************************************************************************)
(* scripts/run_model_on_benchmark.py: get_pgn_paths.  A path is its text   *)
(* relative to the project root; pgn_dir is the directory's path and the   *)
(* names of its *.pgn files, the log its text or None when the file does   *)
(* not exist.                                                              *)
(***************************************************************************)
Ascii ==
  "./0123456789ABCDEFGHIJKLMNOPQRSTUVWXYZ_abcdefghijklmnopqrstuvwxyz"

Ord(c) == CHOOSE i \in 1..Len(Ascii) : Char(Ascii, i) = c

(* a < b for strings, from index i on *)
RECURSIVE StringLess(_, _, _)
StringLess(a, b, i) ==
  IF i > Len(b) THEN FALSE
  ELSE IF i > Len(a) THEN TRUE
  ELSE IF Char(a, i) # Char(b, i) THEN Ord(Char(a, i)) < Ord(Char(b, i))
  ELSE StringLess(a, b, i + 1)

Least(S) == CHOOSE x \in S : \A y \in S \ {x} : StringLess(x, y, 1)

RECURSIVE sorted(_)
sorted(S) == IF S = {} THEN << >> ELSE <<Least(S)>> \o sorted(S \ {Least(S)})

(* seq[start:end] for indices that are not negative *)
Slice(seq, start, end) ==
  SubSeq(seq, start + 1, IF end < Len(seq) THEN end ELSE Len(seq))

endswith(s, suffix) ==
  /\ Len(suffix) <= Len(s)
  /\ SubSeq(s, Len(s) - Len(suffix) + 1, Len(s)) = suffix

(* any(experiment.game_info.input_pgn_file.endswith(pgn_file.name) ...) *)
AlreadyLogged(previous_experiments, name) ==
  \E k \in 1..Len(previous_experiments) :
    endswith(previous_experiments[k].game_info.input_pgn_file, name)

PathsOf(pgn_dir, names) ==
  [k \in 1..Len(names) |-> pgn_dir.path \o "/" \o names[k]]

(* the files left when the log was read; an exception of the reader leaves *)
Filtered(pgn_dir, pgn_files, previous_experiments) ==
  IF previous_experiments.tag # "return" THEN previous_experiments
  ELSE Return(PathsOf(pgn_dir,
         SelectSeq(pgn_files,
                   LAMBDA name : ~AlreadyLogged(previous_experiments.value,
                                                name))))

Selected(pgn_dir, log, pgn_files, reprocess) ==
  IF ~reprocess /\ log # None
  THEN Filtered(pgn_dir, pgn_files, load_experiments_from_jsonl(log[1]))
  ELSE Return(PathsOf(pgn_dir, pgn_files))

get_pgn_paths(pgn_dir, log, start_index, end_index, reprocess) ==
  Selected(pgn_dir, log, Slice(sorted(pgn_dir.names), start_index, end_index),
           reprocess)

PgnNames == {"Cup_1.pgn", "Cup_2.pgn", "WorldCup_1.pgn"}

PgnDirs ==
  {[path |-> "data/split", names |-> names] :
     names \in {{}, {"Cup_1.pgn"}, {"Cup_2.pgn", "Cup_1.pgn"}, PgnNames}}

(* the line an earlier run logged for a file of the directory *)
LoggedLine(name) ==
  json_dumps(process_single_pgn(
               [path |-> "data/split/" \o name, halfmoves |-> 0,
                board_fen |-> StartBoard \o " w KQkq - 0 1"],
               Return("8/8/8/8/8/8/8/8 w - - 0 1"), FALSE,
               "2024-12-31 23:59:59.999999")) \o "\n"

(* no log file, an empty one, and logs of earlier runs *)
Logs ==
  {None, Some(""), Some(LoggedLine("WorldCup_1.pgn")),
   Some(LoggedLine("Cup_2.pgn") \o LoggedLine("Cup_1.pgn")),
   Some(LoggedLine("Cup_1.pgn") \o LoggedLine("Cup_2.pgn")
        \o LoggedLine("WorldCup_1.pgn"))}

StartIndexes == {0, 1}

EndIndexes == {1, 1000}

(***************************************************************************)
(* One call of the library at a time: fn names the function called, args   *)
(* its arguments and ret what it returned or raised.                       *)
(***************************************************************************)
Init ==
  /\ fn = "none" /\ args = << >> /\ ret = Return(None)
  /\ pc = "none" /\ futures = << >> /\ yielded = << >>
  /\ current = None /\ jsonl = "" /\ loaded = None
  /\ tries = 0 /\ requests = << >> /\ waits = << >>
  /\ halfmoves = 0 /\ generated = 0 /\ input_idx = 0
  /\ game = None /\ truncated_dir = << >>

Idle == fn = "none"

Call(f, a, r) ==
  /\ fn' = f /\ args' = a /\ ret' = r
  /\ UNCHANGED runVars /\ UNCHANGED callVars /\ UNCHANGED genVars

PrepareLlmFen ==
  /\ Idle
  /\ \E s \in FenStrings : Call("prepare_llm_fen", <<s>>, prepare_llm_fen(s))

PrepareTrueFen ==
  /\ Idle
  /\ \E s \in FenStrings : Call("prepare_true_fen", <<s>>, prepare_true_fen(s))

IsFen ==
  /\ Idle
  /\ \E s \in FenStrings \cup BoardStrings :
       Call("is_fen", <<s>>, Return(is_fen(s)))

CompareEnPassant ==
  /\ Idle
  /\ \E t \in EnPassantValues, c \in EnPassantValues :
       Call("compare_en_passant", <<t, c>>, compare_en_passant(t, c))

CompareFens ==
  /\ Idle
  /\ \E true_fen \in TrueFens, llm_fen \in LlmFens :
       Call("compare_fens", <<true_fen, llm_fen>>,
            compare_fens(true_fen, llm_fen))

ExtractFenFromText ==
  /\ Idle
  /\ \E text \in Texts :
       Call("extract_fen_from_text", <<text>>,
            Return(extract_fen_from_text(text)))

(* the texts process_llm_raw_text is called with *)
RawTexts ==
  Texts \cup RepeatedFieldStrings \cup SuperscriptStrings
        \cup WhitespaceStrings \cup {""}

ProcessLlmRawText ==
  /\ Idle
  /\ \E llm_raw_text \in RawTexts, extract_fen \in BOOLEAN :
       Call("process_llm_raw_text", <<llm_raw_text, extract_fen>>,
            Return(process_llm_raw_text(llm_raw_text, extract_fen)))

GetPgnPaths ==
  /\ Idle
  /\ \E pgn_dir \in PgnDirs, log \in Logs, start_index \in StartIndexes,
        end_index \in EndIndexes, reprocess \in BOOLEAN :
       Call("get_pgn_paths",
            <<pgn_dir, log, start_index, end_index, reprocess>>,
            get_pgn_paths(pgn_dir, log, start_index, end_index, reprocess))

ProcessSinglePgn ==
  /\ Idle
  /\ \E pgn_file \in PgnFiles, response \in Responses,
        extract_fen \in BOOLEAN, now \in Clock :
       Call("process_single_pgn", <<pgn_file, response, extract_fen>>,
            process_single_pgn(pgn_file, response, extract_fen, now))

Done ==
  /\ ~Idle /\ pc = "none"
  /\ fn' = "none" /\ args' = << >> /\ ret' = Return(None)
  /\ UNCHANGED runVars
  /\ UNCHANGED callVars
  /\ UNCHANGED genVars

Next ==
  \/ PrepareLlmFen
  \/ PrepareTrueFen
  \/ IsFen
  \/ CompareEnPassant
  \/ CompareFens
  \/ ExtractFenFromText
  \/ ProcessLlmRawText
  \/ GetPgnPaths
  \/ ProcessSinglePgn
  \/ Done

Spec == Init /\ [][Next]_vars

(***************************************************************************)
(* run_experiment: the main thread submits one call of process_single_pgn  *)
(* per file to a ThreadPoolExecutor, takes the futures as they complete,   *)
(* and appends one line per record to the log file.  args holds the file   *)
(* list, the entries the log file already has, and extract_fen.            *)
(***************************************************************************)
RunExperiment ==
  /\ Idle
  /\ \E existing \in ExistingLogs, extract_fen \in BOOLEAN :
       /\ fn' = "run_experiment"
       /\ args' = <<pgn_input_files, existing, extract_fen>>
       /\ jsonl' = LogText(existing)
  /\ futures' = [i \in 1..MaxFiles |-> [state |-> "pending", result |-> None]]
  /\ pc' = "as_completed"
  /\ yielded' = << >>
  /\ UNCHANGED <<ret, current, loaded>>
  /\ UNCHANGED callVars
  /\ UNCHANGED genVars

Running == {i \in DOMAIN futures : futures[i].state = "running"}

(* a free worker takes the oldest queued call *)
WorkerStart(i) ==
  /\ fn = "run_experiment"
  /\ futures[i].state = "pending"
  /\ \A j \in 1..(i - 1) : futures[j].state # "pending"
  /\ Cardinality(Running) < MaxWorkers
  /\ futures' = [futures EXCEPT ![i].state = "running"]
  /\ UNCHANGED <<fn, args, ret, pc, yielded, current, jsonl, loaded>>
  /\ UNCHANGED callVars
  /\ UNCHANGED genVars

(* the call returns its record or raises: the future is finished *)
WorkerFinish(i) ==
  /\ fn = "run_experiment"
  /\ futures[i].state = "running"
  /\ \E response \in RunResponses, now \in Clock :
       futures' = [futures EXCEPT ![i] =
                     [state |-> "finished",
                      result |-> process_single_pgn(args[1][i], response,
                                                    args[3], now)]]
  /\ UNCHANGED <<fn, args, ret, pc, yielded, current, jsonl, loaded>>
  /\ UNCHANGED callVars
  /\ UNCHANGED genVars

Yielded == {yielded[k] : k \in 1..Len(yielded)}

(* as_completed yields a finished future and future.result() returns its
   record or raises what the call raised *)
MainNext(i) ==
  /\ pc = "as_completed"
  /\ futures[i].state = "finished"
  /\ i \notin Yielded
  /\ yielded' = Append(yielded, i)
  /\ IF futures[i].result.tag = "PGN2FENExperiment"
     THEN current' = Some(futures[i].result) /\ pc' = "write" /\ ret' = ret
     ELSE current' = current /\ pc' = "raising" /\ ret' = futures[i].result
  /\ UNCHANGED <<fn, args, futures, jsonl, loaded>>
  /\ UNCHANGED callVars
  /\ UNCHANGED genVars

(* open(jsonl_write_file, "a"), f.write(json.dumps(...) + "\n") *)
MainWrite ==
  /\ pc = "write"
  /\ jsonl' = jsonl \o json_dumps(current[1]) \o "\n"
  /\ current' = None
  /\ pc' = "as_completed"
  /\ UNCHANGED <<fn, args, ret, futures, yielded, loaded>>
  /\ UNCHANGED callVars
  /\ UNCHANGED genVars

(* every future was yielded: the loop ends *)
MainExhausted ==
  /\ pc = "as_completed"
  /\ Len(yielded) = Len(futures)
  /\ pc' = "shutdown"
  /\ UNCHANGED <<fn, args, ret, futures, yielded, current, jsonl, loaded>>
  /\ UNCHANGED callVars
  /\ UNCHANGED genVars

(* leaving the with block waits for every call, also while an exception
   is on its way out *)
Shutdown ==
  /\ pc \in {"shutdown", "raising"}
  /\ \A i \in DOMAIN futures : futures[i].state = "finished"
  /\ pc' = "done"
  /\ UNCHANGED <<fn, args, ret, futures, yielded, current, jsonl, loaded>>
  /\ UNCHANGED callVars
  /\ UNCHANGED genVars

LoadExperiments ==
  /\ pc = "done"
  /\ loaded = None
  /\ loaded' = Some(load_experiments_from_jsonl(jsonl))
  /\ UNCHANGED <<fn, args, ret, pc, futures, yielded, current, jsonl>>
  /\ UNCHANGED callVars
  /\ UNCHANGED genVars

NextRun ==
  \/ RunExperiment
  \/ \E i \in 1..MaxFiles : WorkerStart(i)
  \/ \E i \in 1..MaxFiles : WorkerFinish(i)
  \/ \E i \in 1..MaxFiles : MainNext(i)
  \/ MainWrite
  \/ MainExhausted
  \/ Shutdown
  \/ LoadExperiments

SpecRun == Init /\ [][NextRun]_vars

(***************************************************************************)
(* get_openai_fen behind backoff.on_exception(backoff.expo,                *)
(* openai.RateLimitError, max_tries=6).  The decorator calls the function  *)
(* in a loop; the function sends one request to the provider.  args holds  *)
(* pgn_text, model, api_key, base_url and the OPENAI_API_KEY of the        *)
(* environment.                                                            *)
(***************************************************************************)
max_tries == 6

OPENAI_FLEX_MODELS == {"o3", "o3-2025-04-16", "o4-mini", "o4-mini-2025-04-16"}

OpenaiModels == {"gpt-4.1-mini-2025-04-14", "o3", "deepseek-chat"}

ApiKeys == {None, Some("sk-argument")}

EnvironmentKeys == {None, Some("sk-environment")}

BaseUrls == {"https://api.openai.com/v1", "https://api.deepseek.com/v1"}

PgnTexts == {"1. e4 e5 *"}

(* what a request comes to: the content of the first choice, which may be
   missing, or an exception of the client *)
ProviderOutcomes ==
  {Return(Some("8/8/8/8/8/8/8/8 w - - 0 1")), Return(None),
   Raise("RateLimitError"), Raise("APITimeoutError"),
   Raise("APIConnectionError")}

(* str(content) *)
str(content) == IF content = None THEN "None" ELSE content[1]

(* the exception the handler of get_openai_fen raises from e *)
RuntimeError(e) == [tag |-> "RuntimeError", cause |-> e.tag]

(* backoff.expo before jitter: 1, 2, 4, ... seconds *)
RECURSIVE expo(_)
expo(n) == IF n = 0 THEN 1 ELSE 2 * expo(n - 1)

GetOpenaiFen ==
  /\ Idle /\ pc = "none"
  /\ \E pgn_text \in PgnTexts, model \in OpenaiModels, api_key \in ApiKeys,
        base_url \in BaseUrls, env \in EnvironmentKeys :
       args' = <<pgn_text, model, api_key, base_url, env>>
  /\ fn' = "get_openai_fen"
  /\ pc' = "retry"
  /\ tries' = 0 /\ requests' = << >> /\ waits' = << >>
  /\ UNCHANGED <<ret, futures, yielded, current, jsonl, loaded>>
  /\ UNCHANGED genVars

(* the loop of the decorator calls the function once more *)
Attempt ==
  /\ fn = "get_openai_fen" /\ pc = "retry"
  /\ tries' = tries + 1
  /\ pc' = "request"
  /\ UNCHANGED <<fn, args, ret, futures, yielded, current, jsonl, loaded>>
  /\ UNCHANGED <<requests, waits>>
  /\ UNCHANGED genVars

(* the body of get_openai_fen: the request is sent; its content is returned
   as a string, and whatever exception it raises is caught by the handler
   of the function and raised again as a RuntimeError *)
Request(outcome) ==
  /\ fn = "get_openai_fen" /\ pc = "request"
  /\ requests' =
       Append(requests,
              [model |-> args[2],
               api_key |-> IF args[3] = None THEN args[5] ELSE args[3],
               base_url |-> args[4],
               service_tier |-> IF args[2] \in OPENAI_FLEX_MODELS
                                THEN Some("flex") ELSE None,
               outcome |-> outcome])
  /\ IF outcome.tag = "return"
     THEN ret' = Return(str(outcome.value)) /\ pc' = "returned"
     ELSE ret' = RuntimeError(outcome) /\ pc' = "raised"
  /\ UNCHANGED <<fn, args, futures, yielded, current, jsonl, loaded>>
  /\ UNCHANGED <<tries, waits>>
  /\ UNCHANGED genVars

(* the decorator returns what the function returned *)
BackoffReturn ==
  /\ fn = "get_openai_fen" /\ pc = "returned"
  /\ pc' = "done"
  /\ UNCHANGED <<fn, args, ret, futures, yielded, current, jsonl, loaded>>
  /\ UNCHANGED callVars
  /\ UNCHANGED genVars

(* the decorator catches openai.RateLimitError only: it sleeps and goes
   round again unless this was the last try; any other exception leaves *)
BackoffExcept ==
  /\ fn = "get_openai_fen" /\ pc = "raised"
  /\ IF ret.tag = "RateLimitError" /\ tries < max_tries
     THEN waits' = Append(waits, expo(tries - 1)) /\ pc' = "retry"
     ELSE waits' = waits /\ pc' = "done"
  /\ UNCHANGED <<fn, args, ret, futures, yielded, current, jsonl, loaded>>
  /\ UNCHANGED <<tries, requests>>
  /\ UNCHANGED genVars

NextOpenai ==
  \/ GetOpenaiFen
  \/ Attempt
  \/ \E outcome \in ProviderOutcomes : Request(outcome)
  \/ BackoffReturn
  \/ BackoffExcept

SpecOpenai == Init /\ [][NextOpenai]_vars

(***************************************************************************)
(* pgn2fen/pgn_io.py: generate_truncated_pgns.  A game is its headers, in  *)
(* order, and the moves of its mainline; an input file holds one game.     *)
(* args holds input_files (the games of the files), headers_to_delete,     *)
(* max_halfmoves and target_per_halfmove.                                  *)
(***************************************************************************)
Mainline == <<"e4", "e5", "Nf3", "Nc6", "Bb5", "a6", "Ba4", "Nf6">>

Game(white, n) ==
  [headers |-> <<<<"White", white>>, <<"Result", "1-0">>, <<"ECO", "C60">>>>,
   moves |-> SubSeq(Mainline, 1, n)]

Games ==
  {Game(white, n) : white \in {"Carlsen, M."}, n \in 0..(MaxHalfmoves + 1)}

HeadersToDelete == {"ECO", "Opening"}

(* the calls whose loops end: some game has max_halfmoves halfmoves *)
GenerateCalls ==
  {c \in (UNION {[1..n -> Games] : n \in 1..MaxGames})
          \X {HeadersToDelete} \X (0..MaxHalfmoves) \X (0..MaxTarget) :
     \E i \in 1..Len(c[1]) : Len(c[1][i].moves) >= c[3]}

Kept(header) == header[1] \notin HeadersToDelete

SetResult(header) ==
  IF header[1] = "Result" THEN <<"Result", "*">> ELSE header

(* clean_headers: the listed headers are deleted and Result becomes "*" *)
clean_headers(g, headers_to_delete) ==
  [g EXCEPT !.headers =
     IF \E i \in 1..Len(g.headers) : g.headers[i][1] = "Result"
     THEN [i \in 1..Len(SelectSeq(g.headers, Kept)) |->
             SetResult(SelectSeq(g.headers, Kept)[i])]
     ELSE Append(SelectSeq(g.headers, Kept), <<"Result", "*">>)]

(* the loop of truncate_game: the moves made when it ends *)
RECURSIVE MovesMade(_, _, _)
MovesMade(g, halfmove_count, moves_made) ==
  IF moves_made < halfmove_count /\ moves_made < Len(g.moves)
  THEN MovesMade(g, halfmove_count, moves_made + 1)
  ELSE moves_made

(* the moves behind the node reached are kept *)
truncate_game_NoCut(g, halfmove_count) ==
  IF MovesMade(g, halfmove_count, 0) < halfmove_count THEN None ELSE Some(g)

truncate_game(g, halfmove_count) ==
  IF MovesMade(g, halfmove_count, 0) < halfmove_count THEN None
  ELSE Some([g EXCEPT !.moves =
               SubSeq(g.moves, 1, MovesMade(g, halfmove_count, 0))])

Cleaned(truncated, headers_to_delete) ==
  IF truncated = None THEN None
  ELSE Some(clean_headers(truncated[1], headers_to_delete))

process_pgn_file(pgn, halfmove_count, headers_to_delete) ==
  Cleaned(truncate_game(pgn, halfmove_count), headers_to_delete)

RECURSIVE HeaderText(_)
HeaderText(headers) ==
  IF headers = << >> THEN ""
  ELSE "[" \o Head(headers)[1] \o " \"" \o Head(headers)[2] \o "\"]\n"
       \o HeaderText(Tail(headers))

ResultOf(headers) ==
  IF \E i \in 1..Len(headers) : headers[i][1] = "Result"
  THEN headers[CHOOSE i \in 1..Len(headers) : headers[i][1] = "Result"][2]
  ELSE "*"

(* the moves from the k-th on, white's with their move number *)
RECURSIVE MoveText(_, _)
MoveText(moves, k) ==
  IF k > Len(moves) THEN ""
  ELSE (IF k % 2 = 1 THEN IntToStr((k + 1) \div 2) \o ". " ELSE "")
       \o moves[k] \o " " \o MoveText(moves, k + 1)

(* str(game): the headers, an empty line, the moves and the result *)
str_game(g) ==
  HeaderText(g.headers) \o "\n" \o MoveText(g.moves, 1)
  \o ResultOf(g.headers)

RECURSIVE Zeros(_)
Zeros(n) == IF n <= 0 THEN "" ELSE "0" \o Zeros(n - 1)

(* format(k, "0w") *)
ZeroPad(k, width) == Zeros(width - Len(IntToStr(k))) \o IntToStr(k)

OutputFile(h, g) ==
  "halfmoves" \o ZeroPad(h, 4) \o "_" \o ZeroPad(g + 1, 3) \o ".pgn"

GenerateTruncatedPgns ==
  /\ Idle /\ pc = "none"
  /\ \E c \in GenerateCalls : args' = c
  /\ fn' = "generate_truncated_pgns"
  /\ pc' = "for"
  /\ halfmoves' = 0 /\ generated' = 0 /\ input_idx' = 0
  /\ game' = None /\ truncated_dir' = << >>
  /\ UNCHANGED <<ret, futures, yielded, current, jsonl, loaded>>
  /\ UNCHANGED callVars

Generating(at) == fn = "generate_truncated_pgns" /\ pc = at

(* the next halfmove count of the range *)
ForNext ==
  /\ Generating("for")
  /\ halfmoves < args[3]
  /\ halfmoves' = halfmoves + 1
  /\ generated' = 0 /\ input_idx' = 0
  /\ pc' = "while"
  /\ UNCHANGED <<fn, args, ret, futures, yielded, current, jsonl, loaded>>
  /\ UNCHANGED <<game, truncated_dir>>
  /\ UNCHANGED callVars

(* the range is exhausted: the function returns *)
ForEnd ==
  /\ Generating("for")
  /\ halfmoves = args[3]
  /\ pc' = "done"
  /\ UNCHANGED <<fn, args, ret, futures, yielded, current, jsonl, loaded>>
  /\ UNCHANGED genVars
  /\ UNCHANGED callVars

Processed ==
  process_pgn_file(args[1][(input_idx % Len(args[1])) + 1], halfmoves,
                   args[2])

(* the game of the next file is too short: continue *)
WhileSkip ==
  /\ Generating("while")
  /\ generated < args[4]
  /\ Processed = None
  /\ input_idx' = input_idx + 1
  /\ game' = Processed
  /\ UNCHANGED <<fn, args, ret, pc, futures, yielded, current, jsonl, loaded>>
  /\ UNCHANGED <<halfmoves, generated, truncated_dir>>
  /\ UNCHANGED callVars

(* the truncated game is written to its file *)
WhileWrite ==
  /\ Generating("while")
  /\ generated < args[4]
  /\ Processed # None
  /\ input_idx' = input_idx + 1
  /\ game' = Processed
  /\ truncated_dir' =
       (OutputFile(halfmoves, generated) :> str_game(Processed[1]))
       @@ truncated_dir
  /\ generated' = generated + 1
  /\ UNCHANGED <<fn, args, ret, pc, futures, yielded, current, jsonl, loaded>>
  /\ UNCHANGED halfmoves
  /\ UNCHANGED callVars

(* enough files for this halfmove count *)
WhileEnd ==
  /\ Generating("while")
  /\ ~(generated < args[4])
  /\ pc' = "for"
  /\ UNCHANGED <<fn, args, ret, futures, yielded, current, jsonl, loaded>>
  /\ UNCHANGED genVars
  /\ UNCHANGED callVars

NextGenerate ==
  \/ GenerateTruncatedPgns
  \/ ForNext
  \/ ForEnd
  \/ WhileSkip
  \/ WhileWrite
  \/ WhileEnd

(* the function is one thread that runs on until it returns *)
SpecGenerate == Init /\ [][NextGenerate]_vars /\ WF_vars(NextGenerate)

(***************************************************************************)
(* Properties.                                                             *)
(***************************************************************************)
Parts == split(args[1])

NumParts == Len(Parts)

(* a token made of decimal digits only *)
DigitsOnly(tok) == \A i \in 1..Len(tok) : Char(tok, i) \in Digits

Squares == {f \o r : f \in Files, r \in {"3", "6"}}

EnPassantShapes == Squares \cup {"-"}

(* the verdict on en passant for a valid true token t and a token c *)
ExpectedEnPassant(t, c) ==
  \/ t \in Squares /\ c = t
  \/ t = "-" /\ c \in EnPassantShapes

(* the record that assigns six tokens to the six fields by position *)
Positional(p) ==
  [tag |-> "FEN", piece_placement |-> p[1], turn |-> Some(p[2]),
   castling |-> Some(p[3]), en_passant |-> Some(p[4]),
   halfmove_clock |-> int(p[5]).value, fullmove_number |-> int(p[6]).value]

(* C1: prepare_llm_fen raises ValueError, and nothing else, for every input
   with fewer than 3 or more than 6 tokens, the empty string included. *)
C1_ValueErrorOutsideBounds ==
  (fn = "prepare_llm_fen" /\ (NumParts < 3 \/ NumParts > 6))
    => ret = Raise("ValueError")

(* C2: for 3 to 6 tokens prepare_llm_fen raises ValueError whenever one of
   the last two tokens is not an unsigned integer literal, so the counters
   of every returned record are non-negative. *)
C2_CountersNonNegative ==
  (fn = "prepare_llm_fen" /\ NumParts \in 3..6) =>
    /\ (~DigitsOnly(Parts[NumParts - 1]) \/ ~DigitsOnly(Parts[NumParts]))
         => ret = Raise("ValueError")
    /\ IsFENResult(ret) => ret.halfmove_clock >= 0 /\ ret.fullmove_number >= 0

(* C3: for six tokens of which the last two are integers, prepare_llm_fen
   returns the record prepare_true_fen returns, the tokens assigned to the
   fields by position and none inferred. *)
C3_SixTokenParity ==
  (/\ fn = "prepare_llm_fen"
   /\ NumParts = 6
   /\ IsIntLiteral(Parts[5]) /\ IsIntLiteral(Parts[6]))
    => ret = prepare_true_fen(args[1]) /\ ret = Positional(Parts)

C3_Witness ==
  /\ fn = "prepare_llm_fen"
  /\ NumParts = 6
  /\ IsFENResult(ret)
  /\ ret.turn = Some("a3") /\ ret.castling = Some("5")
  /\ ret.en_passant = Some("w")

(* C4: prepare_true_fen raises ValueError for every input that does not have
   exactly six tokens; for six tokens of which the last two are integers it
   returns the record with token i in field i and the counters parsed, and
   for six tokens with another counter it raises ValueError too. *)
C4_TrueFenExactlySix ==
  fn = "prepare_true_fen" =>
    /\ NumParts # 6 => ret = Raise("ValueError")
    /\ (NumParts = 6 /\ IsIntLiteral(Parts[5]) /\ IsIntLiteral(Parts[6]))
         => ret = Positional(Parts)
    /\ (NumParts = 6 /\ ~(IsIntLiteral(Parts[5]) /\ IsIntLiteral(Parts[6])))
         => ret = Raise("ValueError")

C4_Witness ==
  /\ fn = "prepare_true_fen"
  /\ NumParts = 7
  /\ IsIntLiteral(Parts[5]) /\ IsIntLiteral(Parts[6])
  /\ ret = Raise("ValueError")

(* the groups of tok between its "/" separators, empty groups included *)
RECURSIVE RanksFrom(_, _, _, _)
RanksFrom(tok, i, cur, acc) ==
  IF i > Len(tok) THEN Append(acc, cur)
  ELSE IF Char(tok, i) = "/" THEN RanksFrom(tok, i + 1, "", Append(acc, cur))
  ELSE RanksFrom(tok, i + 1, cur \o Char(tok, i), acc)

Ranks(tok) == RanksFrom(tok, 1, "", << >>)

EightRanks(tok) ==
  /\ Len(Ranks(tok)) = 8
  /\ \A k \in 1..8 :
       /\ Ranks(tok)[k] # ""
       /\ \A i \in 1..Len(Ranks(tok)[k]) :
            Char(Ranks(tok)[k], i) \in PositionChars

(* every character is a digit character, decimal or superscript *)
DigitCharsOnly(tok) ==
  \A i \in 1..Len(tok) : Char(tok, i) \in Digits \cup SuperscriptDigits

(* C5: is_fen is true exactly when the text has 3 to 6 tokens, the first is
   eight non-empty groups over [rnbqkpRNBQKP1-8] joined by seven "/", and
   the last two are made of digit characters only, a superscript digit
   being one; the middle tokens play no part. *)
C5_IsFenShape ==
  fn = "is_fen" =>
    ret = Return(/\ NumParts \in 3..6
                 /\ EightRanks(Parts[1])
                 /\ DigitCharsOnly(Parts[NumParts - 1])
                 /\ DigitCharsOnly(Parts[NumParts]))

C5_Witness ==
  /\ fn = "is_fen"
  /\ ret = Return(TRUE)
  /\ NumParts = 6
  /\ Parts[2] = "5" /\ Parts[3] = "a3" /\ Parts[4] = "w"

(* C6: for a valid true en-passant value t and a candidate value c that is
   present, compare_en_passant is true exactly when t is a square and c is
   the same string, or t is "-" and c is a square or "-"; so "-" against
   "a3" is true and "a3" against "-" is false. *)
C6_EnPassantLenient ==
  (/\ fn = "compare_en_passant"
   /\ args[1] # None /\ args[2] # None
   /\ args[1][1] \in EnPassantShapes)
    => ret = Return(ExpectedEnPassant(args[1][1], args[2][1]))

C6_Witness ==
  /\ fn = "compare_en_passant"
  /\ args = <<Some("-"), Some("a3")>>
  /\ ret = Return(TRUE)

(* C7: compare_en_passant returns false without raising when either value
   is absent, also for a malformed true value; when both are present and
   the true value is not an en-passant shape it raises ValueError whatever
   the candidate value is. *)
C7_AbsentFalseMalformedRaises ==
  fn = "compare_en_passant" =>
    /\ (args[1] = None \/ args[2] = None) => ret = Return(FALSE)
    /\ (/\ args[1] # None /\ args[2] # None
        /\ args[1][1] \notin EnPassantShapes) => ret = Raise("ValueError")

C7_Witness ==
  /\ fn = "compare_en_passant"
  /\ args = <<Some("zz"), None>>
  /\ ret = Return(FALSE)

(* C8: in the verdict of compare_fens the fullmove_number field is true
   exactly when the two fullmove numbers differ by at most 1. *)
C8_FullmoveWithinOne ==
  (fn = "compare_fens" /\ ret.tag = "FENEvaluation") =>
    ret.fullmove_number =
      (args[1].fullmove_number - args[2].fullmove_number \in -1..1)

C8_Witness ==
  /\ fn = "compare_fens"
  /\ ret.tag = "FENEvaluation"
  /\ args[2].fullmove_number - args[1].fullmove_number = 2
  /\ ~ret.fullmove_number

(* C9: in the verdict of compare_fens full_correctness is the conjunction of
   the six field verdicts, and piece_placement, turn, castling and
   halfmove_clock are true exactly when the two records agree on them. *)
C9_FullCorrectnessIsAnd ==
  (fn = "compare_fens" /\ ret.tag = "FENEvaluation") =>
    /\ ret.full_correctness =
         (/\ ret.piece_placement /\ ret.turn /\ ret.castling
          /\ ret.en_passant /\ ret.halfmove_clock /\ ret.fullmove_number)
    /\ ret.piece_placement = (args[1].piece_placement = args[2].piece_placement)
    /\ ret.turn = (args[1].turn = args[2].turn)
    /\ ret.castling = (args[1].castling = args[2].castling)
    /\ ret.halfmove_clock = (args[1].halfmove_clock = args[2].halfmove_clock)

C9_Witness ==
  /\ fn = "compare_fens"
  /\ ret.tag = "FENEvaluation"
  /\ ~ret.full_correctness
  /\ ret.piece_placement /\ ret.turn /\ ~ret.castling
  /\ ret.en_passant /\ ret.halfmove_clock /\ ret.fullmove_number

(* records of six-token ground truths with a valid en-passant token, and of
   six-token candidates *)
SixTokenTrueFens ==
  {r \in {prepare_true_fen(s) : s \in TrueStrings} :
     IsFENResult(r) /\ r.en_passant[1] \in EnPassantShapes}

SixTokenLlmFens ==
  {r \in {prepare_llm_fen(s) : s \in {x \in FenStrings : Len(split(x)) = 6}} :
     IsFENResult(r)}

(* C10: for a six-token ground truth with a valid en-passant token and a
   six-token candidate equal to it in every other field, full_correctness
   is the lenient en-passant verdict: true for the same token, true for a
   square against "-", false for "-" against a square. *)
C10_OnlyEnPassantDecides ==
  (/\ fn = "compare_fens"
   /\ args[1] \in SixTokenTrueFens
   /\ args[2] \in SixTokenLlmFens
   /\ [args[2] EXCEPT !.en_passant = args[1].en_passant] = args[1])
    => /\ ret.tag = "FENEvaluation"
       /\ ret.full_correctness =
            ExpectedEnPassant(args[1].en_passant[1], args[2].en_passant[1])

C10_Witness ==
  /\ fn = "compare_fens"
  /\ args[1] \in SixTokenTrueFens
  /\ args[2] \in SixTokenLlmFens
  /\ [args[2] EXCEPT !.en_passant = args[1].en_passant] = args[1]
  /\ args[1].en_passant = Some("-") /\ args[2].en_passant = Some("a3")
  /\ ret.tag = "FENEvaluation" /\ ret.full_correctness

(***************************************************************************)
(* The middle span of a candidate, parts[1:-2].                            *)
(***************************************************************************)
Middle == SubSeq(Parts, 2, NumParts - 2)

Partial == fn = "prepare_llm_fen" /\ NumParts \in 3..5

WithMiddle(mid) ==
  Join(<<Parts[1]>> \o mid \o <<Parts[NumParts - 1], Parts[NumParts]>>)

InDataModel(r) ==
  /\ r.turn \in {None, Some("w"), Some("b")}
  /\ r.castling \in {None} \cup {Some(k) : k \in CastlingTokens}
  /\ r.en_passant \in {None} \cup {Some(e) : e \in EnPassantShapes}

(* C11 as claimed: every record prepare_llm_fen returns, for 3 to 6
   tokens, has turn w, b or absent, castling in the enumeration or absent,
   and en_passant a square, "-" or absent. *)
C11_RecordInDataModel ==
  (fn = "prepare_llm_fen" /\ IsFENResult(ret)) => InDataModel(ret)

(* C11 amended: the record of a candidate of 3 to 5 tokens has turn w, b or
   absent, castling in the enumeration or absent, and en_passant a square
   or absent; the record of a candidate of 6 tokens holds tokens 2 to 4 as
   written, whatever their shape. *)
C11_PartialRecordInDataModel ==
  (fn = "prepare_llm_fen" /\ IsFENResult(ret)) =>
    /\ NumParts \in 3..5 => InDataModel(ret)
    /\ NumParts = 6 =>
         /\ ret.turn = Some(Parts[2])
         /\ ret.castling = Some(Parts[3])
         /\ ret.en_passant = Some(Parts[4])

C11_Witness ==
  /\ Partial
  /\ IsFENResult(ret)
  /\ Middle = <<"KQkq", "b">>
  /\ ret.turn = Some("b") /\ ret.castling = Some("KQkq")
  /\ ret.en_passant = None

(* the middle tokens that have the shape of each field *)
TurnShaped(mid) == {i \in 1..Len(mid) : mid[i] \in {"w", "b"}}

CastlingShaped(mid) == {i \in 1..Len(mid) : mid[i] \in CastlingTokens}

EnPassantShaped(mid) == {i \in 1..Len(mid) : mid[i] \in EnPassantShapes}

MiddleOrders(n) ==
  {p \in [1..n -> 1..n] : \A i, j \in 1..n : p[i] = p[j] => i = j}

Permuted(mid, p) == [i \in 1..Len(mid) |-> mid[p[i]]]

(* C17: for 3 to 5 tokens with at most one middle token of each field
   shape, every permutation of the middle tokens gives the same record; the
   turn and castling are the tokens of those shapes, the en-passant value is
   the square if there is one, and a field no token has the shape of is
   absent. *)
C17_AssignedByValue ==
  (/\ Partial
   /\ IsFENResult(ret)
   /\ Cardinality(TurnShaped(Middle)) <= 1
   /\ Cardinality(CastlingShaped(Middle)) <= 1
   /\ Cardinality(EnPassantShaped(Middle)) <= 1)
    => /\ \A p \in MiddleOrders(Len(Middle)) :
            prepare_llm_fen(WithMiddle(Permuted(Middle, p))) = ret
       /\ \A i \in TurnShaped(Middle) : ret.turn = Some(Middle[i])
       /\ \A i \in CastlingShaped(Middle) : ret.castling = Some(Middle[i])
       /\ \A i \in EnPassantShaped(Middle) :
            Middle[i] # "-" => ret.en_passant = Some(Middle[i])
       /\ TurnShaped(Middle) = {} => ret.turn = None
       /\ CastlingShaped(Middle) = {} => ret.castling = None
       /\ EnPassantShaped(Middle) = {} => ret.en_passant = None

C17_Witness ==
  /\ Partial
  /\ IsFENResult(ret)
  /\ Middle = <<"a3", "w">>
  /\ ret.turn = Some("w") /\ ret.castling = None
  /\ ret.en_passant = Some("a3")

(* C18: for 3 to 5 tokens a middle token "-" goes to castling and never to
   en_passant: the en-passant value is absent or a square, and castling is
   "-" unless a castling token follows the "-", also when a castling token
   came before it. *)
C18_DashIsCastling ==
  (Partial /\ IsFENResult(ret)) =>
    /\ ret.en_passant \in {None} \cup {Some(sq) : sq \in Squares}
    /\ \A i \in 1..Len(Middle) :
         (/\ Middle[i] = "-"
          /\ \A j \in (i + 1)..Len(Middle) : Middle[j] \notin CastlingTokens)
           => ret.castling = Some("-")

C18_Witness ==
  /\ Partial
  /\ IsFENResult(ret)
  /\ Middle = <<"KQkq", "-">>
  /\ ret.castling = Some("-") /\ ret.en_passant = None

(* the middle span without its i-th token *)
Without(mid, i) == SubSeq(mid, 1, i - 1) \o SubSeq(mid, i + 1, Len(mid))

Unknown(tok) ==
  tok \notin {"w", "b"} \cup CastlingTokens \cup EnPassantShapes

(* C19: for 3 to 5 tokens of which the last two are integers
   prepare_llm_fen returns a record whatever the middle tokens are, and a
   middle token of no known shape leaves the record as it is without that
   token. *)
C19_UnknownTokenDropped ==
  (/\ Partial
   /\ IsIntLiteral(Parts[NumParts - 1]) /\ IsIntLiteral(Parts[NumParts]))
    => /\ IsFENResult(ret)
       /\ \A i \in 1..Len(Middle) :
            Unknown(Middle[i])
              => prepare_llm_fen(WithMiddle(Without(Middle, i))) = ret

C19_Witness ==
  /\ Partial
  /\ IsFENResult(ret)
  /\ Middle = <<"a3", "5">>
  /\ ret.turn = None /\ ret.castling = None
  /\ ret.en_passant = Some("a3")

(* the field the scan gives a token to: "-" counts as a castling token *)
FieldOf(tok) ==
  IF tok \in {"w", "b"} THEN 1
  ELSE IF tok \in CastlingTokens THEN 2
  ELSE IF tok \in Squares THEN 3
  ELSE 0

RECURSIVE LastFor(_, _, _)
LastFor(field, mid, i) ==
  IF i = 0 THEN None
  ELSE IF FieldOf(mid[i]) = field THEN Some(mid[i])
  ELSE LastFor(field, mid, i - 1)

(* C20: for 3 to 5 tokens each of turn, castling and en_passant is the last
   middle token, from left to right, that goes to that field; a middle span
   "KQkq -" gives castling "-" and no en-passant value. *)
C20_LastWins ==
  (Partial /\ IsFENResult(ret)) =>
    /\ ret.turn = LastFor(1, Middle, Len(Middle))
    /\ ret.castling = LastFor(2, Middle, Len(Middle))
    /\ ret.en_passant = LastFor(3, Middle, Len(Middle))

C20_Witness ==
  /\ Partial
  /\ IsFENResult(ret)
  /\ Middle = <<"a3", "e6">>
  /\ ret.castling = None /\ ret.en_passant = Some("e6")

(***************************************************************************)
(* extract_fen_from_text.                                                  *)
(***************************************************************************)
WellFormed(fen) ==
  LET p == split(fen) IN
    /\ Len(p) = 6
    /\ EightRanks(p[1])
    /\ p[2] \in {"w", "b"}
    /\ p[3] \in CastlingTokens
    /\ p[4] \in EnPassantShapes
    /\ Len(p[5]) > 0 /\ DigitsOnly(p[5])
    /\ Len(p[6]) > 0 /\ DigitsOnly(p[6])

(* the text is one encoding of the pool inside some surrounding prose *)
Embeds(text, fen) ==
  \E before \in TextBefore, after \in TextAfter :
    text = before \o fen \o after

Extracting == fn = "extract_fen_from_text"

(* C12: a text holding one canonical six-field encoding gives exactly that
   substring; a text whose only encoding lacks a rank or a field, or has a
   field of the wrong shape or out of order, gives the empty list; the
   matches are substrings of the text that do not overlap and come in
   order of appearance. *)
C12_ExtractsExactlyCanonical ==
  Extracting =>
    /\ \A fen \in EmbeddedEncodings :
         Embeds(args[1], fen) =>
           ret.value = IF WellFormed(fen) THEN <<fen>> ELSE << >>
    /\ \A one \in BaseEncodings, two \in BaseEncodings :
         \A between \in TextBetween :
           args[1] = Join(one) \o between \o Join(two)
             => ret.value = <<Join(one), Join(two)>>
    /\ LET spans == FindAll(args[1], 1) IN
         /\ Len(ret.value) = Len(spans)
         /\ \A k \in 1..Len(spans) :
              /\ 1 <= spans[k][1] /\ spans[k][1] <= spans[k][2]
              /\ spans[k][2] <= Len(args[1])
              /\ ret.value[k] = SubSeq(args[1], spans[k][1], spans[k][2])
              /\ k > 1 => spans[k - 1][2] < spans[k][1]

(* C13: the third field of every extracted substring is one of KQkq, KQ,
   kq, K, Q, k, q, "-"; strings such as "qqqq" or "kK" are not extracted. *)
C13_CastlingEnumerated ==
  Extracting =>
    \A k \in 1..Len(ret.value) : split(ret.value[k])[3] \in CastlingTokens

(***************************************************************************)
(* process_single_pgn.                                                     *)
(***************************************************************************)
Processing == fn = "process_single_pgn"

(* the candidate process_llm_raw_text finds in the response *)
Candidate == process_llm_raw_text(args[2].value, args[3])

Usable == Candidate # None /\ is_fen(Candidate[1])

(* C14: once the model call has succeeded process_single_pgn returns an
   experiment record: with the all-false verdict when the response yields
   no usable encoding, and with the verdict of compare_fens on the two
   prepared records when the candidate passes is_fen. *)
C14_NeverPropagates ==
  (Processing /\ args[2].tag = "return") =>
    /\ ret.tag = "PGN2FENExperiment"
    /\ ~Usable => ret.evaluation = AllFalse
    /\ Usable =>
         /\ IsFENResult(prepare_llm_fen(Candidate[1]))
         /\ ret.evaluation =
              compare_fens(prepare_true_fen(args[1].board_fen),
                           prepare_llm_fen(Candidate[1]))

(***************************************************************************)
(* run_experiment and load_experiments_from_jsonl.                         *)
(***************************************************************************)
RunOver == fn = "run_experiment" /\ pc = "done"

Succeeded(i) == futures[i].result.tag = "PGN2FENExperiment"

LogLines == {ReadLines(jsonl, 1)[k] : k \in 1..Len(ReadLines(jsonl, 1))}

(* C15: when run_experiment is over, whether or not a call failed, the log
   holds the line of every call that returned a record; nothing is appended
   after that, so a record missing then is never appended. *)
C15_FailureDoesNotAbort ==
  RunOver =>
    \A i \in DOMAIN futures :
      Succeeded(i) => json_dumps(futures[i].result) \o "\n" \in LogLines

(* the experiments a reader gets from the entries of a log: none for a
   blank line, the record for a line of a record, and the record with
   llm_raw_text set to the value of llm_fen for a line without that key *)
RECURSIVE ExpectedFrom(_)
ExpectedFrom(entries) ==
  IF entries = << >> THEN << >>
  ELSE LET entry == Head(entries) IN
    (IF entry.kind = "blank" THEN << >>
     ELSE IF entry.kind = "record" THEN <<entry.experiment>>
     ELSE <<[entry.experiment EXCEPT !.llm_info.llm_raw_text =
               IF entry.experiment.llm_info.llm_fen = None THEN None
               ELSE entry.experiment.llm_info.llm_fen[1]]>>)
    \o ExpectedFrom(Tail(entries))

(* the records of the futures taken so far, in the order taken *)
RECURSIVE RecordsOf(_)
RecordsOf(taken) ==
  IF taken = << >> THEN << >>
  ELSE (IF Succeeded(Head(taken)) THEN <<futures[Head(taken)].result>>
        ELSE << >>) \o RecordsOf(Tail(taken))

(* C16: reading the log back after a run gives the experiments of the
   entries the file had, blank lines skipped and a missing llm_raw_text
   taken from llm_fen, followed by the records the run wrote, field for
   field and in the order written. *)
C16_LogRoundTrip ==
  (RunOver /\ loaded # None) =>
    loaded[1] = Return(ExpectedFrom(args[2]) \o RecordsOf(yielded))

C16_Witness ==
  /\ RunOver
  /\ loaded # None
  /\ Len(args[2]) = 5
  /\ Len(RecordsOf(yielded)) = 2
  /\ \E i \in DOMAIN futures :
       /\ Succeeded(i)
       /\ futures[i].result.llm_info.llm_raw_text
            = "Sure!\nThe \"FEN\" is:\t8/8/8/8/8/8/8/8 w - - 0 1"
  /\ loaded[1].tag = "return"
  /\ Len(loaded[1].value) = 4

(***************************************************************************)
(* Candidates of three to five tokens against a parsed ground truth         *)
(***************************************************************************)
ParsedTrueFens ==
  {r \in {prepare_true_fen(s) : s \in TrueStrings} : IsFENResult(r)}

PartialLlmFens ==
  {r \in {prepare_llm_fen(s) :
            s \in {x \in FenStrings : Len(split(x)) \in 3..5}} :
     IsFENResult(r)}

AbsentFields(r) ==
  {f \in {"turn", "castling", "en_passant"} : r[f] = None}

(* C21: for a ground truth accepted by prepare_true_fen and a candidate of
   three to five tokens accepted by prepare_llm_fen, the candidate record
   lacks at least one of turn, castling and en_passant, compare_fens never
   returns a verdict with full_correctness true, and in the verdict it
   returns every absent field is judged false. *)
C21_PartialNeverFullyCorrect ==
  (/\ fn = "compare_fens"
   /\ args[1] \in ParsedTrueFens
   /\ args[2] \in PartialLlmFens)
    => /\ AbsentFields(args[2]) # {}
       /\ ret.tag = "FENEvaluation" =>
            /\ ~ret.full_correctness
            /\ \A f \in AbsentFields(args[2]) : ~ret[f]

C21_Witness ==
  /\ fn = "compare_fens"
  /\ args[1] \in ParsedTrueFens
  /\ args[2] \in PartialLlmFens
  /\ AbsentFields(args[2]) = {"en_passant"}
  /\ ret.tag = "FENEvaluation"
  /\ ret.piece_placement /\ ret.turn /\ ret.castling
  /\ ~ret.en_passant /\ ret.halfmove_clock /\ ret.fullmove_number
  /\ ~ret.full_correctness

(***************************************************************************)
(* The log file during a run                                               *)
(***************************************************************************)
(* the records written so far: those of the futures taken, but for the one
   just taken and not yet written *)
Written ==
  RecordsOf(IF pc = "write" THEN SubSeq(yielded, 1, Len(yielded) - 1)
            ELSE yielded)

(* what the file holds behind the text it had before the run *)
Appended == SubSeq(jsonl, Len(LogText(args[2])) + 1, Len(jsonl))

AppendedLines == ReadLines(Appended, 1)

(* C22: at every moment of a run, whatever the workers are doing, the log
   file is the text it had before the run followed by one complete line per
   record taken from as_completed and written, in the order taken, each
   line the whole JSON text of its record with a single newline at its end;
   when the run is over and no call failed there is one line per file. *)
C22_WritesNeverInterleave ==
  fn = "run_experiment" =>
    /\ SubSeq(jsonl, 1, Len(LogText(args[2]))) = LogText(args[2])
    /\ Len(AppendedLines) = Len(Written)
    /\ \A k \in 1..Len(Written) :
         AppendedLines[k] = json_dumps(Written[k]) \o "\n"
    /\ (RunOver /\ \A i \in DOMAIN futures : Succeeded(i))
         => Len(AppendedLines) = Len(args[1])

C22_Witness ==
  /\ RunOver
  /\ \A i \in DOMAIN futures : Succeeded(i)
  /\ yielded[1] = Len(futures)
  /\ args[2] # << >>
  /\ Len(AppendedLines) = MaxFiles
  /\ futures[1].result.llm_info.llm_raw_text
       = "Sure!\nThe \"FEN\" is:\t8/8/8/8/8/8/8/8 w - - 0 1"

(***************************************************************************)
(* Calls of the provider                                                   *)
(***************************************************************************)
CallOver == fn = "get_openai_fen" /\ pc = "done"

LastOutcome == requests[Len(requests)].outcome

(* C23: a call of get_openai_fen ends with a failure of its last request
   only after 6 requests when that failure is a rate-limit error, each
   earlier one followed by a sleep; after any other failure it ends at
   once, raising a RuntimeError made from that failure. *)
C23_RateLimitRetried ==
  (CallOver /\ LastOutcome.tag # "return") =>
    IF LastOutcome.tag = "RateLimitError"
    THEN Len(requests) = max_tries /\ Len(waits) = max_tries - 1
    ELSE ret = RuntimeError(LastOutcome)

(***************************************************************************)
(* The candidate taken from the text of the model                          *)
(***************************************************************************)
Found == extract_fen_from_text(args[1])

(* C24: process_llm_raw_text returns None or a string that passes is_fen:
   the text itself when it passes is_fen; otherwise, with extract_fen set,
   the first string extract_fen_from_text finds in it; otherwise None.
   Every string extract_fen_from_text finds passes is_fen, so with
   extract_fen set the result is None only when nothing is found. *)
C24_ProcessedIsFen ==
  fn = "process_llm_raw_text" =>
    /\ ret.value = None \/ is_fen(ret.value[1])
    /\ \A k \in 1..Len(Found) : is_fen(Found[k])
    /\ ret.value =
         IF is_fen(args[1]) THEN Some(args[1])
         ELSE IF args[2] /\ Found # << >> THEN Some(Found[1])
         ELSE None

C24_Witness ==
  /\ fn = "process_llm_raw_text"
  /\ ~is_fen(args[1])
  /\ args[2]
  /\ Len(Found) >= 2
  /\ Found[1] # Found[2]
  /\ ret.value = Some(Found[1])

(***************************************************************************)
(* The files of generate_truncated_pgns                                    *)
(***************************************************************************)
GenerateOver == Generating("done")

(* the game of the file the loop took last *)
LastGame == args[1][((input_idx - 1) % Len(args[1])) + 1]

(* the mainline halfmoves of the game a file holds *)
HalfmovesIn(text) ==
  Cardinality({i \in 1..Len(split(text)) :
                 \E k \in 1..Len(Mainline) : split(text)[i] = Mainline[k]})

(* the text of an input game after h halfmoves, its headers cleaned *)
TruncatedText(g, h) ==
  str_game([headers |-> clean_headers(g, args[2]).headers,
            moves |-> SubSeq(g.moves, 1, h)])

SkippedIffShort ==
  (Generating("while") /\ input_idx > 0) =>
    (game = None <=> Len(LastGame.moves) < halfmoves)

AllFilesWritten ==
  /\ DOMAIN truncated_dir =
       {OutputFile(h, k - 1) : h \in 1..args[3], k \in 1..args[4]}
  /\ Cardinality(DOMAIN truncated_dir) = args[3] * args[4]
  /\ \A h \in 1..args[3], k \in 1..args[4] :
       /\ HalfmovesIn(truncated_dir[OutputFile(h, k - 1)]) = h
       /\ \E i \in 1..Len(args[1]) :
            /\ Len(args[1][i].moves) >= h
            /\ truncated_dir[OutputFile(h, k - 1)]
                 = TruncatedText(args[1][i], h)

(* C25: when some input game has max_halfmoves halfmoves, a call of
   generate_truncated_pgns returns, and the directory then holds exactly
   target_per_halfmove files for every halfmove count h of 1..max_halfmoves,
   each the text of an input game cut to h mainline halfmoves; inside the
   loop a game is skipped exactly when it has fewer than h halfmoves. *)
C25_GeneratesAllFiles ==
  /\ []SkippedIffShort
  /\ Generating("for") ~> (GenerateOver /\ AllFilesWritten)

C25_Witness ==
  /\ GenerateOver
  /\ args[3] = MaxHalfmoves /\ args[4] = MaxTarget
  /\ Len(args[1]) = MaxGames
  /\ Len(args[1][1].moves) = 1
  /\ Len(args[1][MaxGames].moves) = MaxHalfmoves + 1
  /\ game # None
  /\ Cardinality(DOMAIN truncated_dir) = MaxHalfmoves * MaxTarget

(***************************************************************************)
(* The files left to process                                               *)
(***************************************************************************)
(* the paths the experiments of the log were run on *)
LoggedPaths ==
  {load_experiments_from_jsonl(args[2][1]).value[k].game_info.input_pgn_file :
     k \in 1..Len(load_experiments_from_jsonl(args[2][1]).value)}

(* the files of the index range, in order *)
InRange ==
  PathsOf(args[1], Slice(sorted(args[1].names), args[3], args[4]))

NotLogged(path) == path \notin LoggedPaths

(* C26: with reprocess false and a log file, get_pgn_paths returns, in
   order, the files of the index range that no experiment of the log was
   run on: a file is left out only for a record of that very file, and
   when every file of the range is logged the list is empty. *)
C26_SkipsExactlyLogged ==
  (fn = "get_pgn_paths" /\ ~args[5] /\ args[2] # None) =>
    ret = Return(SelectSeq(InRange, NotLogged))

====
